---- MODULE Spec2Model ----
(***************************************************************************)
(* A model of galpy's planar orbit integrator (orbit_src/planarOrbit.py)   *)
(* and of the Potential base class and its collection evaluators           *)
(* (potential_src/Potential.py),                                           *)
(* and of SCFPotential (potential_src/SCFPotential.py).                    *)
(*                                                                         *)
(* Several specifications share the module:                                *)
(*   SpecOrbit    the life of one planar orbit object                      *)
(*   SpecThreads  two threads calling the diagnostics of one orbit         *)
(*   SpecEval     the evaluate* functions applied to a Potential or a list *)
(*   SpecPot      construction of one Potential and its unit-output flags  *)
(*   SpecField    normalize and the unit-output switches of one instance   *)
(*   SpecMethods  the evaluation methods of one instance                   *)
(*   SpecSearch   rl and lindbladR, step by step                           *)
(*   SpecRl       calls of rl, each run to its end (weak fairness)         *)
(*   SpecSCF      construction and evaluation of an SCFPotential           *)
(*   SpecGegen    the loop of SCFPotential._C, step by step                *)
(* Each specification leaves the variables of the others untouched.        *)
(***************************************************************************)
EXTENDS Integers, Sequences, FiniteSets, TLC

VARIABLES
    orb,      \* the orbit object: a function from attribute names to values
    ret,      \* outcome of the last call on the orbit
    odeCall,  \* the last hand-off to scipy's odeint: rhs, pot, init, t, intOut
    integrated, \* history: integrate has completed on the orbit at least once
    Pot,      \* the argument of the evaluate* functions: a field or a list
    out,      \* outcome of the last evaluate* call
    pot,      \* one Potential instance (or "none" before __init__ returns)
    perr,     \* outcome of the last call on the Potential instance
    search,   \* the rl or lindbladR call in progress: its position and locals
    thr,      \* per thread, the diagnostic call it is in: its position and locals
    table     \* the _C call in progress: its loop indices and the table CC

orbitVars == <<orb, ret, odeCall, integrated>>
evalVars  == <<Pot, out>>
potVars   == <<pot, perr>>
vars      == <<orb, ret, odeCall, integrated, Pot, out, pot, perr, search, thr, table>>

\* no rl or lindbladR call has been made
NoSearch == [op |-> "none", pc |-> "idle"]

\* the threads that may call into one orbit object
Threads == {1, 2}

\* no thread is inside a diagnostic
NoThreads == [th \in Threads |-> [pc |-> "idle", op |-> "none"]]

\* no _C call has been made
NoTable == [op |-> "none", pc |-> "idle"]

(***************************************************************************)
(* Bounds of the model.                                                    *)
(***************************************************************************)
MaxT    == 2    \* longest time sequence handed to integrate
MaxPots == 2    \* longest list of fields
MaxExp  == 6    \* floats above 2^MaxExp are inf, positive ones below 2^-MaxExp are 0
MaxN    == 4    \* largest N handed to _C
MaxL    == 2    \* largest L handed to _C

(***************************************************************************)
(* Numbers.  Python floats and numpy float64 are modelled as exact         *)
(* fractions n/d; d = 0 encodes numpy's non-finite results of a division   *)
(* by zero: n/0 is +inf or -inf by the sign of n, and 0/0 is nan.          *)
(***************************************************************************)
Abs(x) == IF x < 0 THEN -x ELSE x

Sgn(x) == IF x < 0 THEN -1 ELSE IF x > 0 THEN 1 ELSE 0

RECURSIVE GCD(_, _)
GCD(a, b) == IF b = 0 THEN a ELSE GCD(b, a % b)

Norm(n, d) ==
    IF d = 0 THEN [n |-> Sgn(n), d |-> 0]
    ELSE LET g == GCD(Abs(n), Abs(d))
             s == IF d < 0 THEN -1 ELSE 1
         IN  [n |-> s * (n \div g), d |-> s * (d \div g)]

Num(i) == [n |-> i, d |-> 1]

Zero == Num(0)

NaN == [n |-> 0, d |-> 0]

IsFinite(a) == a.d # 0

\* the operands of an arithmetic operator are bound to their values once
\* (x \in {a}), so that a nested expression is evaluated in linear time
FMul(a, b) == CHOOSE r \in {Norm(x.n * y.n, x.d * y.d) : x \in {a}, y \in {b}} : TRUE

FDiv(a, b) == CHOOSE r \in {Norm(x.n * y.d, x.d * y.n) : x \in {a}, y \in {b}} : TRUE

FAddV(a, b) ==
    IF a.d = 0 /\ b.d = 0 THEN (IF a.n = b.n THEN a ELSE NaN)
    ELSE IF a.d = 0 THEN a
    ELSE IF b.d = 0 THEN b
    ELSE Norm(a.n * b.d + b.n * a.d, a.d * b.d)

FAdd(a, b) == CHOOSE r \in {FAddV(x, y) : x \in {a}, y \in {b}} : TRUE

FNeg(a) == CHOOSE r \in {[n |-> -x.n, d |-> x.d] : x \in {a}} : TRUE

FSub(a, b) == FAdd(a, FNeg(b))

\* IEEE equality: nan equals nothing, itself included
FEq(a, b) == a # NaN /\ b # NaN /\ a = b

(***************************************************************************)
(* Sequence helpers.                                                       *)
(***************************************************************************)
Range(s) == {s[i] : i \in DOMAIN s}

SeqsUpTo(S, k) == UNION {[1..m -> S] : m \in 1..k}

\* order of finite numbers
FLe(a, b) == a.n * b.d <= b.n * a.d

amax(s) == CHOOSE x \in Range(s) : \A y \in Range(s) : FLe(y, x)

amin(s) == CHOOSE x \in Range(s) : \A y \in Range(s) : FLe(x, y)

HasAttr(o, a) == a \in DOMAIN o

SetAttr(o, a, v) == [k \in DOMAIN o \cup {a} |-> IF k = a THEN v ELSE o[k]]

(***************************************************************************)
(*                    orbit_src/planarOrbit.py                             *)
(***************************************************************************)

\* Fields as the integrator sees them: the class, the dimension set by the
\* constructor, and whether the field implements the raw radial force.
Field3D == [cls |-> "Potential", dim |-> 3, hasRforce |-> TRUE]

Field2D == [cls |-> "planarPotential", dim |-> 2, hasRforce |-> TRUE]

FieldNoForce == [cls |-> "Potential", dim |-> 3, hasRforce |-> FALSE]

\* The pot argument of integrate: one instance or a list of instances.
Single(f) == [isList |-> FALSE, members |-> <<f>>]

List(fs) == [isList |-> TRUE, members |-> fs]

PotArgs ==
    { Single(Field3D), Single(Field2D), Single(FieldNoForce),
      List(<<Field3D, Field3D>>), List(<<Field3D, Field2D>>) }

isinstancePotential(p) == ~p.isList /\ p.members[1].cls = "Potential"

\* planarPotentialFromRZPotential: the z=0 restriction of a 3-D field
planarPotentialFromRZPotential(f) ==
    [cls |-> "planarPotentialFromRZPotential", dim |-> 2,
     hasRforce |-> f.hasRforce]

\* RZToplanarPotential: projects a 3-D field, or each 3-D member of a list
RZToplanarPotential(p) ==
    [isList |-> p.isList,
     members |-> [i \in DOMAIN p.members |->
                    IF p.members[i].dim = 3
                    THEN planarPotentialFromRZPotential(p.members[i])
                    ELSE p.members[i]]]

\* Outcomes of the right-hand side on a field argument: TRUE = it raises.
\* A member without a raw radial force raises; what the planar evaluators do
\* with a member that is still 3-D is left open.
RhsRaises(p) ==
    IF \E i \in DOMAIN p.members : ~p.members[i].hasRforce THEN {TRUE}
    ELSE IF \E i \in DOMAIN p.members : p.members[i].dim = 3 THEN {TRUE, FALSE}
    ELSE {FALSE}

\* Initial conditions [R,vR,vT(,phi)] as lists of Python floats
InitialStates3 == { <<0, 0, 1>>, <<1, 1, 2>>, <<2, 0, 1>>, <<2, 1, 2>> }

InitialStates4 == { Append(v, 0) : v \in InitialStates3 }

\* Radii the ODE solver may report
Radii == 0..2

\* Output times: strictly increasing, starting at 0
Times == { [i \in 1..m |-> 2 * (i - 1)] : m \in 1..MaxT }

\* scipy.integrate.odeint: one row per requested time, the first row the
\* initial state; the later rows are whatever the solver produces.
odeint(init, t, Rows) ==
    { [i \in 1..Len(t) |-> IF i = 1 THEN init ELSE rest[i]] :
        rest \in [1..Len(t) -> Rows] }

RRows == { <<Num(R), Zero>> : R \in Radii }

FullRows == { <<Num(R), Zero, Num(1), Norm(1, 2)>> : R \in Radii }

\* _integrateROrbit up to the odeint call: l, l**2 and the initial vector
ROrbit_l(vxvv) == Num(vxvv[1] * vxvv[3])

ROrbit_l2(vxvv) == FMul(ROrbit_l(vxvv), ROrbit_l(vxvv))

ROrbit_init(vxvv) == <<Num(vxvv[1]), Num(vxvv[2])>>

\* mutant: the tangential velocity is copied from the initial state
_integrateROrbit_constvT(vxvv, intOut) ==
    [i \in DOMAIN intOut |-> <<intOut[i][1], intOut[i][2], Num(vxvv[3])>>]

\* _integrateROrbit past the odeint call: the [:,3] array of [R,vR,vT]
_integrateROrbit(vxvv, intOut) ==
    [i \in DOMAIN intOut |->
        <<intOut[i][1], intOut[i][2], FDiv(ROrbit_l(vxvv), intOut[i][1])>>]

\* _integrateOrbit up to the odeint call: vphi= vxvv[2]/vxvv[0] divides two
\* Python floats, which raises ZeroDivisionError at R = 0
Orbit_vphiRaises(vxvv) == vxvv[1] = 0

Orbit_init(vxvv) ==
    <<Num(vxvv[1]), Num(vxvv[2]), Num(vxvv[4]), Norm(vxvv[3], vxvv[1])>>

\* mutant: the rows are stored last to first
_integrateOrbit_reversed(intOut) ==
    [i \in DOMAIN intOut |->
        LET r == intOut[Len(intOut) + 1 - i]
        IN  <<r[1], r[2], FMul(r[1], r[4]), r[3]>>]

\* _integrateOrbit past the odeint call: the [:,4] array of [R,vR,vT,phi]
_integrateOrbit(intOut) ==
    [i \in DOMAIN intOut |->
        <<intOut[i][1], intOut[i][2], FMul(intOut[i][1], intOut[i][4]), intOut[i][3]>>]

Msg_Integrate == "Integrate the orbit first"

Msg_NoPhi == "You only provided R,vR, & vT, but not phi; you probably want planarROrbit"

\* the outcome of a call: the operation, its argument, "ok" or the exception
\* raised with its message, and the value returned
Ret(op, arg, tag, msg, val) ==
    [op |-> op, arg |-> arg, tag |-> tag, msg |-> msg, val |-> val]

\* integrate.odeint(rhs,init,t,args=(pot[,l2]),rtol=10.**-8.) and what it returned
OdeCall(rhs, p, l2, init, t, intOut) ==
    [rhs |-> rhs, pot |-> p, l2 |-> l2, init |-> init, t |-> t, intOut |-> intOut]

NoCall == OdeCall("none", Single(Field2D), <<>>, <<>>, <<>>, <<>>)

\* the cached array self.rs= self.orbit[:,0]**2.
rsOf(orbit) == [i \in DOMAIN orbit |-> FMul(orbit[i][1], orbit[i][1])]

\* (amax(rs)-amin(rs))/(amax(rs)+amin(rs))
eOf(rs) == FDiv(FSub(amax(rs), amin(rs)), FAdd(amax(rs), amin(rs)))

InitOrbit ==
    /\ orb = [cls |-> "none"]
    /\ ret = Ret("none", <<>>, "ok", "", Zero)
    /\ odeCall = NoCall
    /\ integrated = FALSE
    /\ Pot = Single(Field2D)
    /\ out = Ret("none", <<>>, "ok", "", Zero)
    /\ pot = [cls |-> "none"]
    /\ perr = Ret("none", <<>>, "ok", "", Zero)
    /\ search = NoSearch
    /\ thr = NoThreads
    /\ table = NoTable

\* planarROrbit.__init__
planarROrbit_init(vxvv) ==
    /\ orb.cls = "none"
    /\ orb' = [cls |-> "planarROrbit", vxvv |-> vxvv]
    /\ ret' = Ret("planarROrbit.__init__", vxvv, "ok", "", Zero)
    /\ UNCHANGED <<thr, table, search, odeCall, integrated, evalVars, potVars>>

\* mutant: the length of the initial state is not checked
planarOrbit_init_nocheck(vxvv) ==
    /\ orb.cls = "none"
    /\ orb' = [cls |-> "planarOrbit", vxvv |-> vxvv]
    /\ ret' = Ret("planarOrbit.__init__", vxvv, "ok", "", Zero)
    /\ UNCHANGED <<thr, table, search, odeCall, integrated, evalVars, potVars>>

\* planarOrbit.__init__
planarOrbit_init(vxvv) ==
    /\ orb.cls = "none"
    /\ IF Len(vxvv) = 3
       THEN /\ ret' = Ret("planarOrbit.__init__", vxvv, "ValueError", Msg_NoPhi, Zero)
            /\ UNCHANGED orb
       ELSE /\ orb' = [cls |-> "planarOrbit", vxvv |-> vxvv]
            /\ ret' = Ret("planarOrbit.__init__", vxvv, "ok", "", Zero)
    /\ UNCHANGED <<thr, table, search, odeCall, integrated, evalVars, potVars>>

\* planarROrbit.integrate
planarROrbit_integrate(t, p) ==
    /\ orb.cls = "planarROrbit"
    /\ UNCHANGED <<thr, table, search, evalVars, potVars>>
    /\ LET thispot == RZToplanarPotential(p)
           withT   == SetAttr(orb, "t", t)
           init    == ROrbit_init(orb.vxvv)
           l2      == <<ROrbit_l2(orb.vxvv)>>
       IN \E raises \in RhsRaises(thispot) :
            IF raises
            THEN /\ orb' = withT
                 /\ odeCall' = OdeCall("_REOM", thispot, l2, init, t, <<>>)
                 /\ ret' = Ret("integrate", t, "PotentialError", "", Zero)
                 /\ UNCHANGED integrated
            ELSE \E intOut \in odeint(init, t, RRows) :
                 /\ orb' = SetAttr(withT, "orbit", _integrateROrbit(orb.vxvv, intOut))
                 /\ odeCall' = OdeCall("_REOM", thispot, l2, init, t, intOut)
                 /\ ret' = Ret("integrate", t, "ok", "", Zero)
                 /\ integrated' = TRUE

\* planarOrbit.integrate
planarOrbit_integrate(t, p) ==
    /\ orb.cls = "planarOrbit"
    /\ UNCHANGED <<thr, table, search, evalVars, potVars>>
    /\ LET thispot == IF isinstancePotential(p) THEN RZToplanarPotential(p) ELSE p
           withT   == SetAttr(orb, "t", t)
       IN IF Orbit_vphiRaises(orb.vxvv)
          THEN /\ orb' = withT
               /\ ret' = Ret("integrate", t, "ZeroDivisionError", "", Zero)
               /\ UNCHANGED <<odeCall, integrated>>
          ELSE LET init == Orbit_init(orb.vxvv)
                   call == [rhs |-> "_EOM", pot |-> thispot, l2 |-> <<>>,
                            init |-> init, t |-> t]
               IN \E raises \in RhsRaises(thispot) :
                    IF raises
                    THEN /\ orb' = withT
                         /\ odeCall' = OdeCall("_EOM", thispot, <<>>, init, t, <<>>)
                         /\ ret' = Ret("integrate", t, "PotentialError", "", Zero)
                         /\ UNCHANGED integrated
                    ELSE \E intOut \in odeint(init, t, FullRows) :
                         /\ orb' = SetAttr(withT, "orbit", _integrateOrbit(intOut))
                         /\ odeCall' = OdeCall("_EOM", thispot, <<>>, init, t, intOut)
                         /\ ret' = Ret("integrate", t, "ok", "", Zero)
                         /\ integrated' = TRUE

\* the first two statements of planarOrbitTop.e, rap and rperi:
\* the orbit object after the lazy fill of self.rs
withRs(o) == IF HasAttr(o, "rs") THEN o ELSE SetAttr(o, "rs", rsOf(o.orbit))

\* planarOrbitTop.e, and planarOrbit.e which overrides it
e ==
    /\ orb.cls # "none"
    /\ UNCHANGED <<thr, table, search, odeCall, integrated, evalVars, potVars>>
    /\ IF ~HasAttr(orb, "orbit")
       THEN /\ ret' = Ret("e", <<>>, "AttributeError", Msg_Integrate, Zero)
            /\ UNCHANGED orb
       ELSE IF orb.cls = "planarOrbit"
       THEN /\ ret' = Ret("e", <<>>, "ok", "", eOf(rsOf(orb.orbit)))
            /\ UNCHANGED orb
       ELSE /\ orb' = withRs(orb)
            /\ ret' = Ret("e", <<>>, "ok", "", eOf(withRs(orb).rs))

\* mutant: the guard looks for self.t, which a failed integrate leaves behind
rap_checks_t ==
    /\ orb.cls # "none"
    /\ UNCHANGED <<thr, table, search, odeCall, integrated, evalVars, potVars>>
    /\ IF ~HasAttr(orb, "t")
       THEN /\ ret' = Ret("rap", <<>>, "AttributeError", Msg_Integrate, Zero)
            /\ UNCHANGED orb
       ELSE IF ~HasAttr(orb, "orbit")
       THEN /\ ret' = Ret("rap", <<>>, "AttributeError", "no attribute 'orbit'", Zero)
            /\ UNCHANGED orb
       ELSE /\ orb' = withRs(orb)
            /\ ret' = Ret("rap", <<>>, "ok", "", amax(withRs(orb).rs))

\* planarOrbitTop.rap
rap ==
    /\ orb.cls # "none"
    /\ UNCHANGED <<thr, table, search, odeCall, integrated, evalVars, potVars>>
    /\ IF ~HasAttr(orb, "orbit")
       THEN /\ ret' = Ret("rap", <<>>, "AttributeError", Msg_Integrate, Zero)
            /\ UNCHANGED orb
       ELSE /\ orb' = withRs(orb)
            /\ ret' = Ret("rap", <<>>, "ok", "", amax(withRs(orb).rs))

\* planarOrbitTop.rperi
rperi ==
    /\ orb.cls # "none"
    /\ UNCHANGED <<thr, table, search, odeCall, integrated, evalVars, potVars>>
    /\ IF ~HasAttr(orb, "orbit")
       THEN /\ ret' = Ret("rperi", <<>>, "AttributeError", Msg_Integrate, Zero)
            /\ UNCHANGED orb
       ELSE /\ orb' = withRs(orb)
            /\ ret' = Ret("rperi", <<>>, "ok", "", amin(withRs(orb).rs))

NextOrbit ==
    \/ \E v \in InitialStates3 : planarROrbit_init(v)
    \/ \E v \in InitialStates3 \cup InitialStates4 : planarOrbit_init(v)
    \/ \E t \in Times, p \in PotArgs : planarROrbit_integrate(t, p)
    \/ \E t \in Times, p \in PotArgs : planarOrbit_integrate(t, p)
    \/ e
    \/ rap
    \/ rperi

(***************************************************************************)
(*                         Specifications                                  *)
(***************************************************************************)
SpecOrbit == InitOrbit /\ [][NextOrbit]_vars

(***************************************************************************)
(*                     Claims about planar orbits                          *)
(***************************************************************************)
Diagnostics == {"e", "rap", "rperi"}

\* C3: an orbit on which integrate has never completed answers e(), rap() and
\* rperi() with the AttributeError "Integrate the orbit first" and holds
\* neither a trajectory nor cached radii; once integrate has completed, a
\* diagnostic never raises.
C3_IntegrateFirst ==
    /\ ~integrated => ~HasAttr(orb, "orbit") /\ ~HasAttr(orb, "rs")
    /\ ret.op \in Diagnostics =>
         IF integrated
         THEN ret.tag = "ok"
         ELSE ret.tag = "AttributeError" /\ ret.msg = "Integrate the orbit first"

\* a diagnostic was refused on an orbit whose only integrate failed
C3_Witness ==
    /\ ret.op = "rap" /\ ret.tag = "AttributeError"
    /\ HasAttr(orb, "t") /\ ~integrated

\* the radii R of the stored trajectory
SampledR(o) == [i \in DOMAIN o.orbit |-> o.orbit[i][1]]

\* C4: on an integrated orbit rap() returns the largest sampled R, rperi()
\* the smallest, and e() returns (r_max-r_min)/(r_max+r_min) of the sampled R.
C4_SampledRadii ==
    (ret.tag = "ok" /\ ret.op \in Diagnostics) =>
        LET rmax == amax(SampledR(orb))
            rmin == amin(SampledR(orb))
        IN  /\ ret.op = "rap" => ret.val = rmax
            /\ ret.op = "rperi" => ret.val = rmin
            /\ ret.op = "e" => ret.val = FDiv(FSub(rmax, rmin), FAdd(rmax, rmin))

\* C5: planarOrbit refuses a 3-component initial state with the ValueError
\* that names planarROrbit and creates no orbit; a 4-component initial state
\* is accepted and stored unchanged.
C5_ThreeComponentsRejected ==
    ret.op = "planarOrbit.__init__" =>
        /\ Len(ret.arg) = 3 =>
             /\ ret.tag = "ValueError"
             /\ ret.msg = "You only provided R,vR, & vT, but not phi; you probably want planarROrbit"
             /\ orb.cls = "none"
        /\ Len(ret.arg) = 4 =>
             /\ ret.tag = "ok"
             /\ orb.cls = "planarOrbit"
             /\ orb.vxvv = ret.arg

C5_Witness ==
    ret.op = "planarOrbit.__init__" /\ Len(ret.arg) = 3 /\ ret.tag = "ValueError"

C7_ProjectedBeforeUse ==
    odeCall.rhs # "none" =>
        \A i \in DOMAIN odeCall.pot.members : odeCall.pot.members[i].dim = 2

\* C8 as stated: in radius-only mode R_i*vT_i = L in every row, whatever
\* radii the solver returns.
C8_AngularMomentumEveryRow ==
    (orb.cls = "planarROrbit" /\ HasAttr(orb, "orbit")) =>
        \A i \in DOMAIN orb.orbit :
            FEq(FMul(orb.orbit[i][1], orb.orbit[i][3]),
                Num(orb.vxvv[1] * orb.vxvv[3]))

\* C8 as amended: in radius-only mode the solver is given L**2 computed from
\* the initial state, every row stores vT_i = L/R_i with that same L, and
\* R_i*vT_i = L in every row whose radius is not zero.
C8_AngularMomentumFixed ==
    LET L == Num(orb.vxvv[1] * orb.vxvv[3])
    IN  /\ (orb.cls = "planarROrbit" /\ HasAttr(orb, "orbit")) =>
            \A i \in DOMAIN orb.orbit :
                /\ orb.orbit[i][3] = FDiv(L, orb.orbit[i][1])
                /\ orb.orbit[i][1] # Zero =>
                     FEq(FMul(orb.orbit[i][1], orb.orbit[i][3]), L)
        /\ odeCall.rhs = "_REOM" => odeCall.l2 = <<FMul(L, L)>>

\* a radius-only trajectory whose radius changed between two samples
C8_Witness ==
    /\ orb.cls = "planarROrbit" /\ HasAttr(orb, "orbit")
    /\ Len(orb.orbit) >= 2
    /\ orb.orbit[1][1] = Num(1) /\ orb.orbit[2][1] = Num(2)

(***************************************************************************)
(*        potential_src/Potential.py: evaluation of a field or a list      *)
(***************************************************************************)

\* The raw methods a field type may implement.
RawHooks ==
    {"_evaluate", "_Rforce", "_zforce", "_phiforce", "_dens",
     "_R2deriv", "_z2deriv", "_Rzderiv", "_phi2deriv", "_Rphideriv"}

HookNo(h) ==
    CASE h = "_evaluate" -> 1 [] h = "_Rforce" -> 2 [] h = "_zforce" -> 3
      [] h = "_phiforce" -> 4 [] h = "_dens" -> 5 [] h = "_R2deriv" -> 6
      [] h = "_z2deriv" -> 7 [] h = "_Rzderiv" -> 8 [] h = "_phi2deriv" -> 9
      [] h = "_Rphideriv" -> 10

\* An exception raised inside the body of a raw method: which method, and the
\* exception class; NoFail when every raw method returns.
Fail(h, exc) == [hook |-> h, exc |-> exc]

NoFail == Fail("", "")

\* A field instance: the amplitude, the isNonAxi flag, the raw methods its
\* class implements, a parameter k of its raw profile, and the failure of
\* one of its raw methods, if any.
Fld(amp, nonAxi, impl, k) ==
    [amp |-> Num(amp), isNonAxi |-> nonAxi, impl |-> impl, k |-> k, fails |-> NoFail]

EvalFields ==
    { Fld(1, FALSE, RawHooks \ {"_phiforce", "_phi2deriv", "_Rphideriv"}, 1),
      Fld(2, FALSE, RawHooks \ {"_dens", "_phiforce", "_phi2deriv", "_Rphideriv"}, 2),
      Fld(3, TRUE, RawHooks, 1),
      Fld(-1, TRUE, RawHooks \ {"_phiforce"}, 3) }

Collections ==
    { Single(f) : f \in EvalFields } \cup { List(fs) : fs \in SeqsUpTo(EvalFields, MaxPots) }

\* phi=None is the empty tuple, phi=x the tuple <<x>>
None == <<>>

\* Positions (R,z) whose spherical radius sqrt(R**2+z**2) is a whole number
Points == { <<1, 0>>, <<3, 4>> }

Phis == { None, <<1>> }

nu_sqrt(n) == CHOOSE r \in 0..n : r * r = n

\* The value of raw method h of field f at (R,z,phi,t); an axisymmetric
\* field's value does not depend on phi.
Raw(f, h, R, z, phi, t) ==
    Num(f.k * (HookNo(h) + R) + z + t
        + (IF f.isNonAxi /\ phi # None THEN HookNo(h) * phi[1] ELSE 0))

\* results of a call: a value, or the exception raised
Ok(v) == [tag |-> "ok", msg |-> <<>>, val |-> v]

Err(tag, msg) == [tag |-> tag, msg |-> msg, val |-> Zero]

IsOk(r) == r.tag = "ok"

Msg_PhiRequired ==
    <<"The (list of) Potential instances is non-axisymmetric, but you did not provide phi">>

NotImplemented(h) ==
    Err("PotentialError", <<h, "function not implemented for this potential">>)

\* self._amp*self.<h>(R,z,phi=phi,t=t): the product, or the exception that
\* leaves the expression; a missing method is an AttributeError
RawCall(f, h, R, z, phi, t) ==
    IF h \notin f.impl THEN Err("AttributeError", <<"no attribute", h>>)
    ELSE IF f.fails.hook = h THEN Err(f.fails.exc, <<"raised inside", h>>)
    ELSE Ok(FMul(f.amp, Raw(f, h, R, z, phi, t)))

\* self._amp*self.<h>(R,z,phi=phi,t=t) inside try/except AttributeError
AmpRaw(f, h, R, z, phi, t) ==
    LET r == RawCall(f, h, R, z, phi, t)
    IN  IF r.tag = "AttributeError" THEN NotImplemented(h) ELSE r

\* mutant: a missing method gives zero whatever isNonAxi is
AmpRawOrZero_alwayszero(f, h, R, z, phi, t) ==
    LET r == RawCall(f, h, R, z, phi, t)
    IN  IF r.tag # "AttributeError" THEN r ELSE Ok(Zero)

\* the same, for the three methods that default to zero on axisymmetric fields
AmpRawOrZero(f, h, R, z, phi, t) ==
    LET r == RawCall(f, h, R, z, phi, t)
    IN
    IF r.tag # "AttributeError" THEN r
    ELSE IF f.isNonAxi
    THEN Err("PotentialError",
             <<"_phiforce", "function not implemented for this non-axisymmetric potential">>)
    ELSE Ok(Zero)

_Rforce_nodecorator(f, R, z, phi, t) == AmpRaw(f, "_Rforce", R, z, phi, t)

_zforce_nodecorator(f, R, z, phi, t) == AmpRaw(f, "_zforce", R, z, phi, t)

R2deriv(f, R, z, phi, t) == AmpRaw(f, "_R2deriv", R, z, phi, t)

z2deriv(f, R, z, phi, t) == AmpRaw(f, "_z2deriv", R, z, phi, t)

Rzderiv(f, R, z, phi, t) == AmpRaw(f, "_Rzderiv", R, z, phi, t)

_phiforce_nodecorator(f, R, z, phi, t) == AmpRawOrZero(f, "_phiforce", R, z, phi, t)

phi2deriv(f, R, z, phi, t) == AmpRawOrZero(f, "_phi2deriv", R, z, phi, t)

Rphideriv(f, R, z, phi, t) == AmpRawOrZero(f, "_Rphideriv", R, z, phi, t)

\* unary minus applied to a result
NegRes(r) == IF IsOk(r) THEN Ok(FNeg(r.val)) ELSE r

\* Potential._call_nodecorator
_call_nodecorator(f, R, z, phi, t, dR, dphi) ==
    IF dR = 0 /\ dphi = 0 THEN AmpRaw(f, "_evaluate", R, z, phi, t)
    ELSE IF dR = 1 /\ dphi = 0 THEN NegRes(_Rforce_nodecorator(f, R, z, phi, t))
    ELSE IF dR = 0 /\ dphi = 1 THEN NegRes(_phiforce_nodecorator(f, R, z, phi, t))
    ELSE IF dR = 2 /\ dphi = 0 THEN R2deriv(f, R, z, phi, t)
    ELSE IF dR = 0 /\ dphi = 2 THEN phi2deriv(f, R, z, phi, t)
    ELSE IF dR = 1 /\ dphi = 1 THEN Rphideriv(f, R, z, phi, t)
    ELSE Err("NotImplementedError", <<"Higher-order derivatives not implemented for this potential">>)

\* Potential.rforce: Rforce*R/r + zforce*z/r with r= sqrt(R**2+z**2)
rforce(f, R, z, phi, t) ==
    LET r  == Num(nu_sqrt(R * R + z * z))
        FR == _Rforce_nodecorator(f, R, z, phi, t)
        Fz == _zforce_nodecorator(f, R, z, phi, t)
    IN  IF ~IsOk(FR) THEN FR
        ELSE IF ~IsOk(Fz) THEN Fz
        ELSE Ok(FAdd(FDiv(FMul(FR.val, Num(R)), r), FDiv(FMul(Fz.val, Num(z)), r)))

\* Densities are kept as q + qpi/pi, both exact fractions
Dens(q, qpi) == [q |-> q, qpi |-> qpi]

DensAdd(a, b) == Dens(FAdd(a.q, b.q), FAdd(a.qpi, b.qpi))

\* mutant: the Poisson expression without its phi2deriv term
dens_nophi2(f, R, z, phi, t, forcepoisson) ==
    LET r == IF forcepoisson THEN Err("AttributeError", <<"Hack!">>)
             ELSE RawCall(f, "_dens", R, z, phi, t)
    IN
    IF r.tag # "AttributeError"
    THEN IF IsOk(r) THEN Ok(Dens(r.val, Zero)) ELSE r
    ELSE LET FR  == _Rforce_nodecorator(f, R, z, phi, t)
             R2  == R2deriv(f, R, z, phi, t)
             ph2 == phi2deriv(f, R, z, phi, t)
             z2  == z2deriv(f, R, z, phi, t)
         IN  IF ~IsOk(FR) THEN FR
             ELSE IF ~IsOk(R2) THEN R2
             ELSE IF ~IsOk(ph2) THEN ph2
             ELSE IF ~IsOk(z2) THEN z2
             ELSE Ok(Dens(Zero,
                          FDiv(FAdd(FAdd(FAdd(FDiv(FNeg(FR.val), Num(R)), R2.val),
                                         Zero),
                                    z2.val),
                               Num(4))))

\* Potential.dens: the raw density, or the Poisson equation when the raw
\* density is missing or forcepoisson is set
dens(f, R, z, phi, t, forcepoisson) ==
    LET r == IF forcepoisson THEN Err("AttributeError", <<"Hack!">>)
             ELSE RawCall(f, "_dens", R, z, phi, t)
    IN
    IF r.tag # "AttributeError"
    THEN IF IsOk(r) THEN Ok(Dens(r.val, Zero)) ELSE r
    ELSE LET FR  == _Rforce_nodecorator(f, R, z, phi, t)
             R2  == R2deriv(f, R, z, phi, t)
             ph2 == phi2deriv(f, R, z, phi, t)
             z2  == z2deriv(f, R, z, phi, t)
         IN  IF ~IsOk(FR) THEN FR
             ELSE IF ~IsOk(R2) THEN R2
             ELSE IF ~IsOk(ph2) THEN ph2
             ELSE IF ~IsOk(z2) THEN z2
             ELSE Ok(Dens(Zero,
                          FDiv(FAdd(FAdd(FAdd(FDiv(FNeg(FR.val), Num(R)), R2.val),
                                         FDiv(ph2.val, Num(R * R))),
                                    z2.val),
                               Num(4))))

\* nu.prod of an array of booleans, as 0/1
nu_prod(bs) ==
    LET acc[i \in 0..Len(bs)] ==
            IF i = 0 THEN 1 ELSE acc[i - 1] * (IF bs[i] THEN 1 ELSE 0)
    IN  acc[Len(bs)]

\* mutant: only the first member of a list is looked at
_isNonAxi_first(P) == P.members[1].isNonAxi

\* _isNonAxi
_isNonAxi(P) ==
    IF P.isList
    THEN LET isAxis == [i \in DOMAIN P.members |-> ~P.members[i].isNonAxi]
         IN  nu_prod(isAxis) = 0
    ELSE P.members[1].isNonAxi

\* what a collection evaluator hands back: the outcome and the number of
\* members whose method was called
Outcome(r, n) == [tag |-> r.tag, msg |-> r.msg, val |-> r.val, nEval |-> n]

PhiError == Outcome(Err("PotentialError", Msg_PhiRequired), 0)

\* sum+= on floats, or on densities
Plus(a, b) == IF "qpi" \in DOMAIN a THEN DensAdd(a, b) ELSE FAdd(a, b)

\* sum= 0.; for pot in Pot: sum+= <member result>; return sum
\* (the first member that raises ends the loop)
SumLoop(rs, zero) ==
    LET bad == {i \in DOMAIN rs : ~IsOk(rs[i])}
        acc[i \in 0..Len(rs)] == IF i = 0 THEN zero ELSE Plus(acc[i - 1], rs[i].val)
    IN  IF bad # {}
        THEN LET i == CHOOSE j \in bad : \A k \in bad : j <= k
             IN  Outcome(rs[i], i)
        ELSE Outcome(Ok(acc[Len(rs)]), Len(rs))

\* mutant: sum= instead of sum+= keeps the last member only
SumLoop_lastonly(rs, zero) ==
    LET bad == {i \in DOMAIN rs : ~IsOk(rs[i])}
    IN  IF bad # {}
        THEN LET i == CHOOSE j \in bad : \A k \in bad : j <= k
             IN  Outcome(rs[i], i)
        ELSE Outcome(Ok(IF Len(rs) = 0 THEN zero ELSE rs[Len(rs)].val), Len(rs))

\* the isList / isinstance(Pot,Potential) branches shared by the evaluators
ListOrSingle(P, rs, zero) ==
    IF P.isList THEN SumLoop(rs, zero) ELSE Outcome(rs[1], 1)

\* mutant: _evaluatePotentials with the loop that keeps the last member only
_evaluatePotentials_lastonly(P, R, z, phi, t, dR, dphi) ==
    IF _isNonAxi(P) /\ phi = None THEN PhiError
    ELSE LET rs == [i \in DOMAIN P.members |->
                      _call_nodecorator(P.members[i], R, z, phi, t, dR, dphi)]
         IN  IF P.isList THEN SumLoop_lastonly(rs, Zero) ELSE Outcome(rs[1], 1)

\* _evaluatePotentials, and below it the other eight evaluators, which repeat
\* its shape with another member method
_evaluatePotentials(P, R, z, phi, t, dR, dphi) ==
    IF _isNonAxi(P) /\ phi = None THEN PhiError
    ELSE ListOrSingle(P, [i \in DOMAIN P.members |->
                            _call_nodecorator(P.members[i], R, z, phi, t, dR, dphi)],
                      Zero)

evaluateDensities(P, R, z, phi, t, forcepoisson) ==
    IF _isNonAxi(P) /\ phi = None THEN PhiError
    ELSE ListOrSingle(P, [i \in DOMAIN P.members |->
                            dens(P.members[i], R, z, phi, t, forcepoisson)],
                      Dens(Zero, Zero))

_evaluateRforces(P, R, z, phi, t) ==
    IF _isNonAxi(P) /\ phi = None THEN PhiError
    ELSE ListOrSingle(P, [i \in DOMAIN P.members |->
                            _Rforce_nodecorator(P.members[i], R, z, phi, t)],
                      Zero)

_evaluatephiforces(P, R, z, phi, t) ==
    IF _isNonAxi(P) /\ phi = None THEN PhiError
    ELSE ListOrSingle(P, [i \in DOMAIN P.members |->
                            _phiforce_nodecorator(P.members[i], R, z, phi, t)],
                      Zero)

_evaluatezforces(P, R, z, phi, t) ==
    IF _isNonAxi(P) /\ phi = None THEN PhiError
    ELSE ListOrSingle(P, [i \in DOMAIN P.members |->
                            _zforce_nodecorator(P.members[i], R, z, phi, t)],
                      Zero)

evaluaterforces(P, R, z, phi, t) ==
    IF _isNonAxi(P) /\ phi = None THEN PhiError
    ELSE ListOrSingle(P, [i \in DOMAIN P.members |->
                            rforce(P.members[i], R, z, phi, t)],
                      Zero)

evaluateR2derivs(P, R, z, phi, t) ==
    IF _isNonAxi(P) /\ phi = None THEN PhiError
    ELSE ListOrSingle(P, [i \in DOMAIN P.members |->
                            R2deriv(P.members[i], R, z, phi, t)],
                      Zero)

evaluatez2derivs(P, R, z, phi, t) ==
    IF _isNonAxi(P) /\ phi = None THEN PhiError
    ELSE ListOrSingle(P, [i \in DOMAIN P.members |->
                            z2deriv(P.members[i], R, z, phi, t)],
                      Zero)

evaluateRzderivs(P, R, z, phi, t) ==
    IF _isNonAxi(P) /\ phi = None THEN PhiError
    ELSE ListOrSingle(P, [i \in DOMAIN P.members |->
                            Rzderiv(P.members[i], R, z, phi, t)],
                      Zero)

Ts == {0, 1}

\* (dR,dphi) requests: the value, the five supported derivatives, one beyond
Derivs == { <<0, 0>>, <<1, 0>>, <<0, 1>>, <<2, 0>>, <<0, 2>>, <<1, 1>>, <<2, 1>> }

Args(R, z, phi, t) == [R |-> R, z |-> z, phi |-> phi, t |-> t]

Called(op, args, extra, o) ==
    [op |-> op, args |-> args, extra |-> extra,
     tag |-> o.tag, msg |-> o.msg, val |-> o.val, nEval |-> o.nEval]

InitEval ==
    /\ Pot \in Collections
    /\ out = Called("none", Args(1, 0, None, 0), <<>>, Outcome(Ok(Zero), 0))
    /\ orb = [cls |-> "none"]
    /\ ret = Ret("none", <<>>, "ok", "", Zero)
    /\ odeCall = NoCall
    /\ integrated = FALSE
    /\ pot = [cls |-> "none"]
    /\ perr = Ret("none", <<>>, "ok", "", Zero)
    /\ search = NoSearch
    /\ thr = NoThreads
    /\ table = NoTable

call_evaluatePotentials ==
    \E pt \in Points, phi \in Phis, t \in Ts, d \in Derivs :
        /\ out' = Called("evaluatePotentials", Args(pt[1], pt[2], phi, t), d,
                         _evaluatePotentials(Pot, pt[1], pt[2], phi, t, d[1], d[2]))
        /\ UNCHANGED <<thr, table, search, Pot, orbitVars, potVars>>

call_evaluateDensities ==
    \E pt \in Points, phi \in Phis, t \in Ts, forcepoisson \in BOOLEAN :
        /\ out' = Called("evaluateDensities", Args(pt[1], pt[2], phi, t), <<forcepoisson>>,
                         evaluateDensities(Pot, pt[1], pt[2], phi, t, forcepoisson))
        /\ UNCHANGED <<thr, table, search, Pot, orbitVars, potVars>>

call_evaluateRforces ==
    \E pt \in Points, phi \in Phis, t \in Ts :
        /\ out' = Called("evaluateRforces", Args(pt[1], pt[2], phi, t), <<>>,
                         _evaluateRforces(Pot, pt[1], pt[2], phi, t))
        /\ UNCHANGED <<thr, table, search, Pot, orbitVars, potVars>>

call_evaluatephiforces ==
    \E pt \in Points, phi \in Phis, t \in Ts :
        /\ out' = Called("evaluatephiforces", Args(pt[1], pt[2], phi, t), <<>>,
                         _evaluatephiforces(Pot, pt[1], pt[2], phi, t))
        /\ UNCHANGED <<thr, table, search, Pot, orbitVars, potVars>>

call_evaluatezforces ==
    \E pt \in Points, phi \in Phis, t \in Ts :
        /\ out' = Called("evaluatezforces", Args(pt[1], pt[2], phi, t), <<>>,
                         _evaluatezforces(Pot, pt[1], pt[2], phi, t))
        /\ UNCHANGED <<thr, table, search, Pot, orbitVars, potVars>>

call_evaluaterforces ==
    \E pt \in Points, phi \in Phis, t \in Ts :
        /\ out' = Called("evaluaterforces", Args(pt[1], pt[2], phi, t), <<>>,
                         evaluaterforces(Pot, pt[1], pt[2], phi, t))
        /\ UNCHANGED <<thr, table, search, Pot, orbitVars, potVars>>

call_evaluateR2derivs ==
    \E pt \in Points, phi \in Phis, t \in Ts :
        /\ out' = Called("evaluateR2derivs", Args(pt[1], pt[2], phi, t), <<>>,
                         evaluateR2derivs(Pot, pt[1], pt[2], phi, t))
        /\ UNCHANGED <<thr, table, search, Pot, orbitVars, potVars>>

call_evaluatez2derivs ==
    \E pt \in Points, phi \in Phis, t \in Ts :
        /\ out' = Called("evaluatez2derivs", Args(pt[1], pt[2], phi, t), <<>>,
                         evaluatez2derivs(Pot, pt[1], pt[2], phi, t))
        /\ UNCHANGED <<thr, table, search, Pot, orbitVars, potVars>>

call_evaluateRzderivs ==
    \E pt \in Points, phi \in Phis, t \in Ts :
        /\ out' = Called("evaluateRzderivs", Args(pt[1], pt[2], phi, t), <<>>,
                         evaluateRzderivs(Pot, pt[1], pt[2], phi, t))
        /\ UNCHANGED <<thr, table, search, Pot, orbitVars, potVars>>

NextEval ==
    \/ call_evaluatePotentials
    \/ call_evaluateDensities
    \/ call_evaluateRforces
    \/ call_evaluatephiforces
    \/ call_evaluatezforces
    \/ call_evaluaterforces
    \/ call_evaluateR2derivs
    \/ call_evaluatez2derivs
    \/ call_evaluateRzderivs

SpecEval == InitEval /\ [][NextEval]_vars

(***************************************************************************)
(*                 Claims about collection evaluation                      *)
(***************************************************************************)
\* all orders of the members of a list
Reorderings(fs) ==
    { [i \in DOMAIN fs |-> fs[p[i]]] :
        p \in { q \in [DOMAIN fs -> DOMAIN fs] : \A i, j \in DOMAIN fs : q[i] = q[j] => i = j } }

\* the sum of the values in a tuple of results
SumVals(rs) ==
    LET acc[i \in 0..Len(rs)] == IF i = 0 THEN Zero ELSE FAdd(acc[i - 1], rs[i].val)
    IN  acc[Len(rs)]

EvaluateOps ==
    {"evaluatePotentials", "evaluateDensities", "evaluateRforces",
     "evaluatephiforces", "evaluatezforces", "evaluaterforces",
     "evaluateR2derivs", "evaluatez2derivs", "evaluateRzderivs"}

PhiWasRequired ==
    /\ out.tag = "PotentialError"
    /\ out.msg = <<"The (list of) Potential instances is non-axisymmetric, but you did not provide phi">>

\* C2: each of the nine evaluators, given a field or list with a
\* non-axisymmetric member and no phi, fails with the PotentialError asking
\* for phi before any member is evaluated; with no non-axisymmetric member it
\* never fails for lack of phi.
C2_PhiRequired ==
    out.op \in EvaluateOps =>
        LET nonAxi == \E i \in DOMAIN Pot.members : Pot.members[i].isNonAxi
        IN  /\ (nonAxi /\ out.args.phi = None) => (PhiWasRequired /\ out.nEval = 0)
            /\ ~nonAxi => ~PhiWasRequired
            /\ out.args.phi # None => ~PhiWasRequired

\* a list whose second member only is non-axisymmetric was refused
C2_Witness ==
    /\ out.op = "evaluateRzderivs" /\ PhiWasRequired
    /\ Pot.isList /\ Len(Pot.members) = 2
    /\ ~Pot.members[1].isNonAxi /\ Pot.members[2].isNonAxi

(***************************************************************************)
(*      Potential.__init__, turn_physical_on, turn_physical_off            *)
(***************************************************************************)
\* A unit: its name, its dimension as exponents of <<length, mass, time>>,
\* and its size relative to the galpy unit of the same dimension.
Unit(name, dim, scale) == [name |-> name, dim |-> dim, scale |-> scale]

Units ==
    { Unit("km2/s2", <<2, 0, -2>>, Num(1)),
      Unit("Msun", <<0, 1, 0>>, Num(1)),
      Unit("pc km2/s2", <<3, 0, -2>>, Num(1)),
      Unit("kpc km2/s2", <<3, 0, -2>>, Num(1000)),
      Unit("Msun/pc3", <<-3, 1, 0>>, Num(1)),
      Unit("km2/s2/pc2", <<0, 0, -2>>, Num(1)),
      Unit("Msun/pc2", <<-2, 1, 0>>, Num(1)),
      Unit("km2/s2/pc", <<1, 0, -2>>, Num(1)),
      Unit("kpc", <<1, 0, 0>>, Num(1000)),
      Unit("", <<0, 0, 0>>, Num(1)) }

UnitNamed(n) == CHOOSE u \in Units : u.name = n

\* amp= is a bare number or a units.Quantity
Number(v) == [isQuantity |-> FALSE, value |-> Num(v)]

Quantity(v, u) == [isQuantity |-> TRUE, value |-> Num(v), unit |-> u]

Amps == { Number(1), Number(2) } \cup { Quantity(2, u) : u \in Units }

\* amp_units as the classes pass it; "None" is the default None
AmpUnits == {"None", "mass", "velocity2", "density", "surfacedensity", "unitless"}

\* ro= and vo= as passed: None or a number
Ros == { None, <<9>> }

Vos == { None, <<200>> }

\* config.__config__.getfloat('normalization','ro') and ...'vo'
config_ro == 8

config_vo == 220

\* Quantity.to(unit).value: the value in the other unit, or
\* UnitConversionError when the dimensions differ
to(q, u) ==
    IF q.unit.dim = u.dim
    THEN Ok(FDiv(FMul(q.value, q.unit.scale), u.scale))
    ELSE Err("UnitConversionError", <<"not convertible">>)

NTries == 7

\* the seven try blocks of __init__, in the order they are written: the name
\* used in the error message, the unit converted to, and what the converted
\* value is divided by
TryName(i) ==
    CASE i = 1 -> "velocity2" [] i = 2 -> "mass" [] i = 3 -> "G x mass"
      [] i = 4 -> "density" [] i = 5 -> "G x density"
      [] i = 6 -> "surface density" [] i = 7 -> "G x surface density"

TryUnit(i) ==
    CASE i = 1 -> UnitNamed("km2/s2") [] i = 2 -> UnitNamed("Msun")
      [] i = 3 -> UnitNamed("pc km2/s2") [] i = 4 -> UnitNamed("Msun/pc3")
      [] i = 5 -> UnitNamed("km2/s2/pc2") [] i = 6 -> UnitNamed("Msun/pc2")
      [] i = 7 -> UnitNamed("km2/s2/pc")

TryPer(i) ==
    CASE i = 1 -> <<"vo**2">>
      [] i = 2 -> <<"mass_in_msol(vo,ro)">>
      [] i = 3 -> <<"mass_in_msol(vo,ro)", "_G">>
      [] i = 4 -> <<"dens_in_msolpc3(vo,ro)">>
      [] i = 5 -> <<"dens_in_msolpc3(vo,ro)", "_G">>
      [] i = 6 -> <<"surfdens_in_msolpc2(vo,ro)">>
      [] i = 7 -> <<"surfdens_in_msolpc2(vo,ro)", "_G">>

\* mutant: the G x mass block compares amp_units with 'velocity2'
TryAmpUnits_Gmass_velocity2(i) ==
    CASE i = 1 -> "velocity2" [] i = 2 -> "mass" [] i = 3 -> "velocity2"
      [] i = 4 -> "density" [] i = 5 -> "density"
      [] i = 6 -> "surfacedensity" [] i = 7 -> "surfacedensity"

\* the amp_units each block accepts: if not amp_units == '...'
TryAmpUnits(i) ==
    CASE i = 1 -> "velocity2" [] i = 2 -> "mass" [] i = 3 -> "mass"
      [] i = 4 -> "density" [] i = 5 -> "density"
      [] i = 6 -> "surfacedensity" [] i = 7 -> "surfacedensity"

\* The amplitude in internal units: the number converted, and the names of
\* the conversion factors it was divided by (none for a bare number).
Amplitude(v, per) == [value |-> v, per |-> per]

Parsed(tag, msg, amp, tried) == [tag |-> tag, msg |-> msg, amp |-> amp, tried |-> tried]

\* "Parse amp if it has units": block i and the blocks after it; tried lists
\* the blocks entered so far
RECURSIVE ParseAmp(_, _, _, _)
ParseAmp(i, amp, amp_units, tried) ==
    IF i > NTries
    THEN Parsed("UnitConversionError",
                <<"amp= parameter of %s should have units of %s; given units are not understood", amp_units>>,
                Amplitude(amp.value, <<>>), tried)
    ELSE LET c == to(amp, TryUnit(i))
             now == Append(tried, TryName(i))
         IN  IF ~IsOk(c) THEN ParseAmp(i + 1, amp, amp_units, now)
             ELSE IF amp_units # TryAmpUnits(i)
             THEN Parsed("UnitConversionError",
                         <<"amp= parameter of %s should have units of %s, but has units of %s instead",
                           amp_units, TryName(i)>>,
                         Amplitude(c.val, TryPer(i)), now)
             ELSE Parsed("ok", <<>>, Amplitude(c.val, TryPer(i)), now)

\* what the last constructor or method call on the field did
PCall(op, args, tag, msg, tried) ==
    [op |-> op, args |-> args, tag |-> tag, msg |-> msg, tried |-> tried]

InitPot ==
    /\ pot = [cls |-> "none"]
    /\ perr = PCall("none", <<>>, "ok", <<>>, <<>>)
    /\ search = NoSearch
    /\ thr = NoThreads
    /\ table = NoTable
    /\ orb = [cls |-> "none"]
    /\ ret = Ret("none", <<>>, "ok", "", Zero)
    /\ odeCall = NoCall
    /\ integrated = FALSE
    /\ Pot = Single(Field2D)
    /\ out = Ret("none", <<>>, "ok", "", Zero)

\* The object built by Potential.__init__; ctor keeps the arguments it was
\* built with and turnedOn whether turn_physical_on was called on it since.
PotentialObject(amp, ro, vo, roSet, voSet, ctor) ==
    [cls |-> "Potential", _amp |-> amp, dim |-> 3, isNonAxi |-> FALSE,
     _ro |-> IF ro = None THEN config_ro ELSE ro[1], _roSet |-> roSet,
     _vo |-> IF vo = None THEN config_vo ELSE vo[1], _voSet |-> voSet,
     ctor |-> ctor, turnedOn |-> FALSE]

\* mutant: a constructor that leaves both flags clear for a bare number
Potential_init_flagsclear(amp, ro, vo, amp_units) ==
    LET ctor == [amp |-> amp, ro |-> ro, vo |-> vo, amp_units |-> amp_units]
    IN  /\ IF ~amp.isQuantity
           THEN /\ pot' = PotentialObject(Amplitude(amp.value, <<>>), ro, vo,
                                          FALSE, FALSE, ctor)
                /\ perr' = PCall("Potential.__init__", ctor, "ok", <<>>, <<>>)
           ELSE LET r == ParseAmp(1, amp, amp_units, <<>>)
                IN  /\ perr' = PCall("Potential.__init__", ctor, r.tag, r.msg, r.tried)
                    /\ pot' = IF r.tag = "ok"
                              THEN PotentialObject(r.amp, ro, vo, TRUE, TRUE, ctor)
                              ELSE [cls |-> "none"]
        /\ UNCHANGED <<thr, table, search, orbitVars, evalVars>>

\* Potential(amp=amp,ro=ro,vo=vo,amp_units=amp_units); pot is the object the
\* call produced, none when the constructor raised
Potential_init(amp, ro, vo, amp_units) ==
    LET ctor == [amp |-> amp, ro |-> ro, vo |-> vo, amp_units |-> amp_units]
    IN  /\ IF ~amp.isQuantity
           THEN /\ pot' = PotentialObject(Amplitude(amp.value, <<>>), ro, vo,
                                          ro # None, vo # None, ctor)
                /\ perr' = PCall("Potential.__init__", ctor, "ok", <<>>, <<>>)
           ELSE LET r == ParseAmp(1, amp, amp_units, <<>>)
                IN  /\ perr' = PCall("Potential.__init__", ctor, r.tag, r.msg, r.tried)
                    /\ pot' = IF r.tag = "ok"
                              THEN PotentialObject(r.amp, ro, vo, TRUE, TRUE, ctor)
                              ELSE [cls |-> "none"]
        /\ UNCHANGED <<thr, table, search, orbitVars, evalVars>>

\* mutant: turn_physical_off that also puts ro back to the configured value
turn_physical_off_resets_ro ==
    /\ pot.cls = "Potential"
    /\ pot' = [pot EXCEPT !._roSet = FALSE, !._voSet = FALSE, !._ro = config_ro]
    /\ perr' = PCall("turn_physical_off", <<>>, "ok", <<>>, <<>>)
    /\ UNCHANGED <<thr, table, search, orbitVars, evalVars>>

turn_physical_off ==
    /\ pot.cls = "Potential"
    /\ pot' = [pot EXCEPT !._roSet = FALSE, !._voSet = FALSE]
    /\ perr' = PCall("turn_physical_off", <<>>, "ok", <<>>, <<>>)
    /\ UNCHANGED <<thr, table, search, orbitVars, evalVars>>

turn_physical_on(ro, vo) ==
    /\ pot.cls = "Potential"
    /\ pot' = [pot EXCEPT !._roSet = TRUE, !._voSet = TRUE,
                          !._ro = IF ro # None THEN ro[1] ELSE @,
                          !._vo = IF vo # None THEN vo[1] ELSE @,
                          !.turnedOn = TRUE]
    /\ perr' = PCall("turn_physical_on", <<ro, vo>>, "ok", <<>>, <<>>)
    /\ UNCHANGED <<thr, table, search, orbitVars, evalVars>>

NextPot ==
    \/ \E amp \in Amps, ro \in Ros, vo \in Vos, amp_units \in AmpUnits :
          Potential_init(amp, ro, vo, amp_units)
    \/ turn_physical_off
    \/ \E ro \in Ros, vo \in Vos : turn_physical_on(ro, vo)

SpecPot == InitPot /\ [][NextPot]_vars

(***************************************************************************)
(*                 Claims about amplitude units and flags                  *)
(***************************************************************************)
\* the seven dimensions in the order the claim gives them, each with the
\* exponents of <<length, mass, time>> it has in physics (G is
\* length^3 mass^-1 time^-2) and the declared dimension it counts as
C9_Order ==
    << [name |-> "velocity2", dim |-> <<2, 0, -2>>, base |-> "velocity2"],
       [name |-> "mass", dim |-> <<0, 1, 0>>, base |-> "mass"],
       [name |-> "G x mass", dim |-> <<3, 0, -2>>, base |-> "mass"],
       [name |-> "density", dim |-> <<-3, 1, 0>>, base |-> "density"],
       [name |-> "G x density", dim |-> <<0, 0, -2>>, base |-> "density"],
       [name |-> "surface density", dim |-> <<-2, 1, 0>>, base |-> "surfacedensity"],
       [name |-> "G x surface density", dim |-> <<1, 0, -2>>, base |-> "surfacedensity"] >>

\* C9: a quantity amplitude is tried against velocity^2, mass, G x mass,
\* density, G x density, surface density, G x surface density in that order
\* and the first that converts is accepted; construction succeeds only if the
\* accepted dimension is the declared one (G x variants counting as their
\* base), otherwise it fails with a unit-conversion error, as it does when
\* none of the seven converts.
C9_AmplitudeUnits ==
    (perr.op = "Potential.__init__" /\ perr.args.amp.isQuantity) =>
        LET amp == perr.args.amp
            fits == {i \in 1..7 : C9_Order[i].dim = amp.unit.dim}
            names(k) == [i \in 1..k |-> C9_Order[i].name]
        IN  IF fits = {}
            THEN perr.tag = "UnitConversionError" /\ perr.tried = names(7)
            ELSE LET k == CHOOSE i \in fits : \A j \in fits : i <= j
                 IN  /\ perr.tried = names(k)
                     /\ IF perr.args.amp_units = C9_Order[k].base
                        THEN /\ perr.tag = "ok"
                             /\ pot.ctor = perr.args
                             /\ pot._amp.value = FMul(amp.value, amp.unit.scale)
                        ELSE perr.tag = "UnitConversionError"

\* a G x mass amplitude in kpc km2/s2 was accepted for a field declaring mass
C9_Witness ==
    /\ perr.op = "Potential.__init__" /\ perr.tag = "ok"
    /\ perr.args.amp.isQuantity /\ perr.args.amp.unit.name = "kpc km2/s2"
    /\ perr.args.amp_units = "mass"
    /\ perr.tried = <<"velocity2", "mass", "G x mass">>

\* C10 as stated: after construction with a resolved quantity amplitude both
\* flags are set; after construction with a bare number both flags are clear
\* and stay clear until turn_physical_on is called.
C10_DisabledUntilTurnedOn ==
    pot.cls = "Potential" =>
        /\ (perr.op = "Potential.__init__" /\ perr.tag = "ok" /\ pot.ctor.amp.isQuantity)
              => (pot._roSet /\ pot._voSet)
        /\ (~pot.ctor.amp.isQuantity /\ ~pot.turnedOn)
              => (~pot._roSet /\ ~pot._voSet)

\* C10 amended: after construction with a resolved quantity amplitude both
\* flags are set; after construction with a bare number the ro flag is set
\* exactly when ro= was passed and the vo flag exactly when vo= was passed;
\* a field built from a bare number with neither ro= nor vo= has both flags
\* clear until turn_physical_on is called.
C10_FlagsFollowRoVo ==
    pot.cls = "Potential" =>
        /\ (perr.op = "Potential.__init__" /\ perr.tag = "ok" /\ pot.ctor.amp.isQuantity)
              => (pot._roSet /\ pot._voSet)
        /\ (perr.op = "Potential.__init__" /\ perr.tag = "ok" /\ ~pot.ctor.amp.isQuantity)
              => (pot._roSet = (pot.ctor.ro # None) /\ pot._voSet = (pot.ctor.vo # None))
        /\ (~pot.ctor.amp.isQuantity /\ pot.ctor.ro = None /\ pot.ctor.vo = None
               /\ ~pot.turnedOn)
              => (~pot._roSet /\ ~pot._voSet)

\* a field built from a bare number with ro= only, just constructed
C10_Witness ==
    /\ pot.cls = "Potential" /\ perr.op = "Potential.__init__" /\ perr.tag = "ok"
    /\ ~pot.ctor.amp.isQuantity /\ pot.ctor.ro # None /\ pot.ctor.vo = None
    /\ pot._roSet /\ ~pot._voSet

(***************************************************************************)
(*   Instances of Potential subclasses: normalize and the flag methods     *)
(***************************************************************************)
\* What a subclass adds to Potential: isNonAxi, its raw methods, the
\* parameter of its raw profile, and a raw method that raises, if any.
Shape(nonAxi, impl, k, fails) ==
    [isNonAxi |-> nonAxi, impl |-> impl, k |-> k, fails |-> fails]

PhiHooks == {"_phiforce", "_phi2deriv", "_Rphideriv"}

AllHooks == RawHooks \cup {"_mass"}

Shapes ==
    { Shape(FALSE, AllHooks \ PhiHooks, 1, NoFail),
      Shape(FALSE, AllHooks \ (PhiHooks \cup {"_dens", "_mass"}), 1, NoFail),
      Shape(FALSE, AllHooks \ (PhiHooks \cup {"_Rforce"}), 1, NoFail),
      Shape(FALSE, AllHooks \ PhiHooks, 0, NoFail),
      Shape(TRUE, AllHooks, 1, NoFail),
      Shape(TRUE, AllHooks \ PhiHooks, 2, NoFail) }

\* the same classes with a raw method whose body raises
FailingShapes ==
    { Shape(FALSE, AllHooks \ PhiHooks, 1, Fail(h, exc)) :
        h \in {"_Rforce", "_dens", "_mass"}, exc \in {"AttributeError", "ValueError"} }
    \cup { Shape(FALSE, AllHooks, 1, Fail("_phiforce", "AttributeError")),
           Shape(TRUE, AllHooks, 1, Fail("_phi2deriv", "AttributeError")) }

\* Subclass.__init__: Potential.__init__(self,amp=amp,ro=ro,vo=vo), then the
\* attributes of the subclass
Instance(amp, ro, vo, sh) ==
    LET po == PotentialObject(Amplitude(Num(amp), <<>>), ro, vo, ro # None, vo # None,
                              [amp |-> Number(amp), ro |-> ro, vo |-> vo, amp_units |-> "None"])
    IN  [a \in DOMAIN po \cup {"impl", "k", "fails"} |->
           CASE a = "isNonAxi" -> sh.isNonAxi
             [] a = "impl" -> sh.impl
             [] a = "k" -> sh.k
             [] a = "fails" -> sh.fails
             [] OTHER -> po[a]]

\* the instance as the evaluation methods see it
AsField(p) ==
    [amp |-> p._amp.value, isNonAxi |-> p.isNonAxi, impl |-> p.impl, k |-> p.k,
     fails |-> p.fails]

InstanceAmps == {1, -2}

\* a method call on the instance and what it returned or raised
FCall(op, args, r) == [op |-> op, args |-> args, tag |-> r.tag, msg |-> r.msg, val |-> r.val]

nu_fabs(x) == [n |-> Abs(x.n), d |-> x.d]

Norms == {1, 2}

InitField ==
    /\ pot \in { Instance(amp, ro, None, sh) : amp \in InstanceAmps, ro \in Ros, sh \in Shapes }
    /\ perr = FCall("none", <<>>, Ok(Zero))
    /\ search = NoSearch
    /\ thr = NoThreads
    /\ table = NoTable
    /\ orb = [cls |-> "none"]
    /\ ret = Ret("none", <<>>, "ok", "", Zero)
    /\ odeCall = NoCall
    /\ integrated = FALSE
    /\ Pot = Single(Field2D)
    /\ out = Ret("none", <<>>, "ok", "", Zero)

\* Potential.normalize
normalize(norm, t) ==
    /\ pot.cls = "Potential"
    /\ LET F == _Rforce_nodecorator(AsField(pot), 1, 0, <<0>>, t)
       IN  IF ~IsOk(F)
           THEN /\ pot' = pot
                /\ perr' = FCall("normalize", <<norm, t>>, F)
           ELSE /\ pot' = [pot EXCEPT !._amp.value = FMul(@, FDiv(Num(norm), nu_fabs(F.val)))]
                /\ perr' = FCall("normalize", <<norm, t>>, Ok(Zero))
    /\ UNCHANGED <<thr, table, search, orbitVars, evalVars>>

\* Potential.Rforce(R,z,phi=phi,t=t,use_physical=False)
call_Rforce(R, z, phi, t) ==
    /\ pot.cls = "Potential"
    /\ perr' = FCall("Rforce", Args(R, z, phi, t), _Rforce_nodecorator(AsField(pot), R, z, phi, t))
    /\ UNCHANGED <<thr, table, search, pot, orbitVars, evalVars>>

NextField ==
    \/ \E norm \in Norms, t \in Ts : normalize(norm, t)
    \/ turn_physical_off
    \/ \E ro \in Ros, vo \in Vos : turn_physical_on(ro, vo)
    \/ \E phi \in Phis, t \in Ts : call_Rforce(1, 0, phi, t)

SpecField == InitField /\ [][NextField]_vars

(***************************************************************************)
(*                 Claims about normalize and the frame                    *)
(***************************************************************************)
\* the capability attributes of an instance
Capabilities(p) == <<p.dim, p.isNonAxi, p.impl>>

\* C11 as stated: over evaluations, normalize, turn_physical_on and
\* turn_physical_off, only the amplitude and the two output flags change;
\* ro, vo and the capability flags keep their values.
C11_OnlyAmpAndFlags ==
    [][/\ pot'._ro = pot._ro
       /\ pot'._vo = pot._vo
       /\ Capabilities(pot') = Capabilities(pot)]_vars

\* C11 amended: over evaluations, normalize, turn_physical_on and
\* turn_physical_off the capability flags never change, the amplitude changes
\* only in normalize, and ro (vo) changes only in a turn_physical_on call that
\* is given ro= (vo=), which stores the given value.
C11_RoVoOnlyByTurnOn ==
    [][/\ Capabilities(pot') = Capabilities(pot)
       /\ pot'._amp # pot._amp => perr'.op = "normalize"
       /\ pot'._ro # pot._ro =>
             (perr'.op = "turn_physical_on" /\ perr'.args[1] # None
                /\ pot'._ro = perr'.args[1][1])
       /\ pot'._vo # pot._vo =>
             (perr'.op = "turn_physical_on" /\ perr'.args[2] # None
                /\ pot'._vo = perr'.args[2][1])]_vars

\* turn_physical_on(ro=9) has replaced the configured ro of a normalized field
C11_Witness ==
    /\ pot.cls = "Potential" /\ perr.op = "turn_physical_on"
    /\ pot.ctor.ro = None /\ pot._ro = 9 /\ pot._vo = config_vo
    /\ pot._amp.value # pot.ctor.amp.value

\* C12: normalize(norm) multiplies the amplitude by norm/|Rforce(1,0)|, after
\* normalize(1.) the field has R*(-Rforce(1,0)) = 1 at R=1, and ro, vo and
\* the output flags are unchanged.
C12_NormalizeGivesUnitVc ==
    [][(perr'.op = "normalize" /\ perr'.tag = "ok") =>
          LET norm   == perr'.args[1]
              t      == perr'.args[2]
              before == _Rforce_nodecorator(AsField(pot), 1, 0, <<0>>, t)
              after  == _Rforce_nodecorator(AsField(pot'), 1, 0, <<0>>, t)
          IN  /\ pot'._amp.value =
                    FMul(pot._amp.value, FDiv(Num(norm), nu_fabs(before.val)))
              /\ norm = 1 => (IsOk(after) /\ FEq(FMul(Num(1), FNeg(after.val)), Num(1)))
              /\ <<pot'._ro, pot'._vo, pot'._roSet, pot'._voSet>>
                    = <<pot._ro, pot._vo, pot._roSet, pot._voSet>>]_vars

(***************************************************************************)
(*        Methods of one instance: forces, derivatives, dens, mass         *)
(***************************************************************************)
\* The value of the raw method _mass(R,z=z,t=t) of a field
RawMass(f, R, z, t) == Num(f.k * (11 + R) + (IF z = None THEN 0 ELSE z[1]) + t)

\* self._amp*self._mass(R,z=z,t=t), or the exception that leaves it
RawMassCall(f, R, z, t) ==
    IF "_mass" \notin f.impl THEN Err("AttributeError", <<"no attribute", "_mass">>)
    ELSE IF f.fails.hook = "_mass" THEN Err(f.fails.exc, <<"raised inside", "_mass">>)
    ELSE Ok(FMul(f.amp, RawMass(f, R, z, t)))

\* integrate.quad and integrate.dblquad, as sums over the whole-number nodes
\* of the range: the nodes in the order they are visited
QuadNodes(R, z) ==
    IF z = None THEN [i \in 1..R |-> <<i, 0>>]
    ELSE [i \in 1..(R * z[1]) |-> <<((i - 1) \div z[1]) + 1, ((i - 1) % z[1]) + 1>>]

\* the weight of the density at a node: x**2. in quad, x in dblquad
QuadWeight(x, z) == IF z = None THEN x * x ELSE x

\* A mass in the form one + pi*pi_, how it was obtained, and the number of
\* density evaluations made for it
MassVal(one, pi_) == [one |-> one, pi_ |-> pi_]

MassOutcome(r, how, nDens) ==
    [tag |-> r.tag, msg |-> r.msg, val |-> r.val, how |-> how, nDens |-> nDens]

\* 4.*nu.pi*integrate.quad(...)[0] and 4.*nu.pi*integrate.dblquad(...)[0]
MassByIntegration(f, R, z) ==
    LET nodes == QuadNodes(R, z)
        ds == [i \in DOMAIN nodes |-> dens(f, nodes[i][1], nodes[i][2], <<0>>, 0, FALSE)]
        bad == {i \in DOMAIN ds : ~IsOk(ds[i])}
        w(i) == Num(4 * QuadWeight(nodes[i][1], z))
        acc[i \in 0..Len(ds)] ==
            IF i = 0 THEN MassVal(Zero, Zero)
            ELSE MassVal(FAdd(acc[i - 1].one, FMul(w(i), ds[i].val.qpi)),
                         FAdd(acc[i - 1].pi_, FMul(w(i), ds[i].val.q)))
        how == IF z = None THEN "quad" ELSE "dblquad"
    IN  IF bad # {}
        THEN LET i == CHOOSE j \in bad : \A k \in bad : j <= k
             IN  MassOutcome(ds[i], how, i)
        ELSE MassOutcome(Ok(acc[Len(ds)]), how, Len(ds))

\* mutant: mass without the isNonAxi test
mass_nocheck(f, R, z, t, forceint) ==
    LET r == IF forceint THEN Err("AttributeError", <<"Hack!">>)
             ELSE RawMassCall(f, R, z, t)
    IN  IF r.tag # "AttributeError"
        THEN IF IsOk(r) THEN MassOutcome(Ok(MassVal(r.val, Zero)), "formula", 0)
             ELSE MassOutcome(r, "formula", 0)
        ELSE MassByIntegration(f, R, z)

\* Potential.mass
mass(f, R, z, t, forceint) ==
    IF f.isNonAxi
    THEN MassOutcome(Err("NotImplementedError",
                         <<"mass for non-axisymmetric potentials is not currently supported">>),
                     "none", 0)
    ELSE LET r == IF forceint THEN Err("AttributeError", <<"Hack!">>)
                  ELSE RawMassCall(f, R, z, t)
         IN  IF r.tag # "AttributeError"
             THEN IF IsOk(r) THEN MassOutcome(Ok(MassVal(r.val, Zero)), "formula", 0)
                  ELSE MassOutcome(r, "formula", 0)
             ELSE MassByIntegration(f, R, z)

Zs == { None, <<2>> }

InitMethods ==
    /\ pot \in { Instance(amp, None, None, sh) :
                    amp \in InstanceAmps, sh \in Shapes \cup FailingShapes }
    /\ perr = FCall("none", <<>>, Ok(Zero))
    /\ search = NoSearch
    /\ thr = NoThreads
    /\ table = NoTable
    /\ orb = [cls |-> "none"]
    /\ ret = Ret("none", <<>>, "ok", "", Zero)
    /\ odeCall = NoCall
    /\ integrated = FALSE
    /\ Pot = Single(Field2D)
    /\ out = Ret("none", <<>>, "ok", "", Zero)

\* Potential.phiforce(R,z,phi=phi,t=t,use_physical=False)
call_phiforce(R, z, phi, t) ==
    /\ perr' = FCall("phiforce", Args(R, z, phi, t),
                     _phiforce_nodecorator(AsField(pot), R, z, phi, t))
    /\ UNCHANGED <<thr, table, search, pot, orbitVars, evalVars>>

call_phi2deriv(R, z, phi, t) ==
    /\ perr' = FCall("phi2deriv", Args(R, z, phi, t), phi2deriv(AsField(pot), R, z, phi, t))
    /\ UNCHANGED <<thr, table, search, pot, orbitVars, evalVars>>

call_Rphideriv(R, z, phi, t) ==
    /\ perr' = FCall("Rphideriv", Args(R, z, phi, t), Rphideriv(AsField(pot), R, z, phi, t))
    /\ UNCHANGED <<thr, table, search, pot, orbitVars, evalVars>>

call_dens(R, z, phi, t, forcepoisson) ==
    /\ perr' = [FCall("dens", Args(R, z, phi, t), dens(AsField(pot), R, z, phi, t, forcepoisson))
                  EXCEPT !.args = [R |-> R, z |-> z, phi |-> phi, t |-> t, forced |-> forcepoisson]]
    /\ UNCHANGED <<thr, table, search, pot, orbitVars, evalVars>>

call_mass(R, z, t, forceint) ==
    /\ LET r == mass(AsField(pot), R, z, t, forceint)
       IN  perr' = [op |-> "mass",
                    args |-> [R |-> R, z |-> z, t |-> t, forced |-> forceint],
                    tag |-> r.tag, msg |-> r.msg, val |-> r.val,
                    how |-> r.how, nDens |-> r.nDens]
    /\ UNCHANGED <<thr, table, search, pot, orbitVars, evalVars>>

NextMethods ==
    \/ \E pt \in Points, phi \in {<<0>>, <<1>>}, t \in Ts : call_Rforce(pt[1], pt[2], phi, t)
    \/ \E pt \in Points, phi \in {<<0>>, <<1>>}, t \in Ts : call_phiforce(pt[1], pt[2], phi, t)
    \/ \E pt \in Points, phi \in {<<0>>, <<1>>}, t \in Ts : call_phi2deriv(pt[1], pt[2], phi, t)
    \/ \E pt \in Points, phi \in {<<0>>, <<1>>}, t \in Ts : call_Rphideriv(pt[1], pt[2], phi, t)
    \/ \E pt \in Points, phi \in {<<0>>, <<1>>}, t \in Ts, forcepoisson \in BOOLEAN :
          call_dens(pt[1], pt[2], phi, t, forcepoisson)
    \/ \E R \in {1, 2}, z \in Zs, t \in Ts, forceint \in BOOLEAN : call_mass(R, z, t, forceint)

SpecMethods == InitMethods /\ [][NextMethods]_vars

(***************************************************************************)
(*                 Claims about the methods of one instance                *)
(***************************************************************************)
\* the raw method an operation asks for first
PrimaryHook(op) ==
    CASE op = "Rforce" -> "_Rforce" [] op = "phiforce" -> "_phiforce"
      [] op = "phi2deriv" -> "_phi2deriv" [] op = "Rphideriv" -> "_Rphideriv"
      [] op = "dens" -> "_dens" [] op = "mass" -> "_mass"

MethodOps == {"Rforce", "phiforce", "phi2deriv", "Rphideriv", "dens", "mass"}

\* C13: on a field without the raw azimuthal force (phi second derivative,
\* R-phi cross derivative) the operation returns zero if the field is
\* axisymmetric and fails with PotentialError, never returning zero, if the
\* field is flagged non-axisymmetric.
C13_ZeroOnlyIfAxisymmetric ==
    (perr.op \in {"phiforce", "phi2deriv", "Rphideriv"}
        /\ PrimaryHook(perr.op) \notin pot.impl) =>
        IF pot.isNonAxi
        THEN perr.tag = "PotentialError"
        ELSE perr.tag = "ok" /\ perr.val = Zero

\* the cross derivative of a non-axisymmetric field without _Rphideriv failed
C13_Witness ==
    /\ perr.op = "Rphideriv" /\ pot.isNonAxi /\ "_Rphideriv" \notin pot.impl
    /\ perr.tag = "PotentialError"

\* the operation asked the raw method for its value (no forcepoisson or
\* forceint, and mass got past its isNonAxi test)
AskedRaw ==
    /\ perr.op \in {"dens", "mass"} => ~perr.args.forced
    /\ perr.op = "mass" => ~pot.isNonAxi

\* C14: the not-implemented PotentialError and the fallbacks (zero azimuthal
\* force, Poisson density, integrated mass) occur exactly when the raw method
\* is missing: an exception raised inside an existing raw method comes out
\* as itself.
C14_OnlyMissingIsNotImplemented ==
    (perr.op \in MethodOps /\ AskedRaw) =>
        LET h == PrimaryHook(perr.op)
        IN  /\ (h \in pot.impl /\ pot.fails.hook = h) => perr.tag = pot.fails.exc
            /\ (h \in pot.impl /\ pot.fails.hook # h /\ perr.op \in {"Rforce", "phiforce", "phi2deriv", "Rphideriv"})
                  => perr.tag = "ok"

\* the density sum 4*(weight*dens) over the nodes of the quadrature
C16_Integral(f, R, z) ==
    LET ys == IF z = None THEN {0} ELSE 1..z[1]
        RECURSIVE S(_)
        S(P) == IF P = {} THEN MassVal(Zero, Zero)
                ELSE LET q == CHOOSE x \in P : TRUE
                         d == dens(f, q[1], q[2], <<0>>, 0, FALSE).val
                         w == Num(4 * (IF z = None THEN q[1] * q[1] ELSE q[1]))
                         r == S(P \ {q})
                     IN  MassVal(FAdd(r.one, FMul(w, d.qpi)), FAdd(r.pi_, FMul(w, d.q)))
    IN  S((1..R) \X ys)

C15_Density(f, R, z, phi, t, forcepoisson) ==
    IF "_dens" \in f.impl /\ ~forcepoisson
    THEN Dens(FMul(f.amp, Raw(f, "_dens", R, z, phi, t)), Zero)
    ELSE LET FR  == _Rforce_nodecorator(f, R, z, phi, t).val
             R2  == R2deriv(f, R, z, phi, t).val
             ph2 == phi2deriv(f, R, z, phi, t).val
             z2  == z2deriv(f, R, z, phi, t).val
             sum == FAdd(FAdd(FSub(R2, FDiv(FR, Num(R))), FDiv(ph2, Num(R * R))), z2)
         IN  Dens(Zero, FMul(Norm(1, 4), sum))

RECURSIVE Pow2(_)
Pow2(k) == IF k = 0 THEN 1 ELSE 2 * Pow2(k - 1)

\* a float result: overflow to inf, underflow to zero
Float(x) ==
    IF x.d = 0 \/ x.n = 0 THEN x
    ELSE IF Abs(x.n) > Pow2(MaxExp) * x.d THEN [n |-> Sgn(x.n), d |-> 0]
    ELSE IF Abs(x.n) * Pow2(MaxExp) < x.d THEN Zero
    ELSE x

\* x > 0. and x < 0. on floats: false for nan
FPos(x) == x.n > 0

FNegative(x) == x.n < 0

\* nu.sqrt of a float whose finite positive values are squares of fractions
FSqrt(x) ==
    IF x.d = 0 THEN (IF x.n > 0 THEN x ELSE NaN)
    ELSE IF x.n < 0 THEN NaN
    ELSE [n |-> nu_sqrt(x.n), d |-> nu_sqrt(x.d)]

\* 10.**-5.
TenToMinus5 == Num(1)

\* Fields given by their rotation curve: "flat" has v_c = c everywhere,
\* "capped" has v_c = c inside R = rc and v_c = c*rc/R outside, so that
\* R*v_c(R) never exceeds c*rc.
RotField(kind, c, rc) == [cls |-> "Potential", kind |-> kind, c |-> c, rc |-> rc]

RotFields ==
    { RotField("flat", Norm(1, 4), 1), RotField("flat", Num(1), 1),
      RotField("flat", Num(4), 1), RotField("capped", Num(1), 8) }

\* the radial force of the field in the plane
RotRforce(f, R) ==
    LET c2 == FMul(f.c, f.c)
    IN  IF f.kind = "flat" \/ FLe(R, Num(f.rc))
        THEN FNeg(FDiv(c2, R))
        ELSE FNeg(FDiv(FMul(c2, Num(f.rc * f.rc)), FMul(R, FMul(R, R))))

\* vcirc(pot,R,use_physical=False): nu.sqrt(R*-Rforce(R,0.))
vcirc(f, R) == FSqrt(FMul(R, FNeg(RotRforce(f, R))))

\* _rlfunc: rl*vcirc(pot,rl)-lz
_rlfunc(rl, lz, f) == FSub(FMul(rl, vcirc(f, rl)), lz)

\* optimize.brentq(_rlfunc,a,b,args=(lz,pot)): ValueError when the function
\* has the same sign at both ends, an end where it is zero, or else a zero
\* between the ends (nan when an end value is nan)
brentq(f, lz, a, b) ==
    LET fa == _rlfunc(a, lz, f)
        fb == _rlfunc(b, lz, f)
        lo == IF FLe(a, b) THEN a ELSE b
        hi == IF FLe(a, b) THEN b ELSE a
        inner == FDiv(lz, f.c)
    IN  IF FPos(FMul(fa, fb))
        THEN Err("ValueError", <<"f(a) and f(b) must have different signs">>)
        ELSE IF fa = Zero THEN Ok(a)
        ELSE IF fb = Zero THEN Ok(b)
        ELSE IF fa = NaN \/ fb = NaN THEN Ok(NaN)
        ELSE IF FLe(lo, inner) /\ FLe(inner, hi) /\ _rlfunc(inner, lz, f) = Zero
        THEN Ok(inner)
        ELSE Ok(NaN)

\* lz arguments of rl
Lzs == { Norm(3, 8), Norm(1, 2), Num(2), Num(-2), Num(8), Num(12) }

math_fabs(x) == [n |-> Abs(x.n), d |-> x.d]

\* The locals of a running rl call and where it stands: in the loop of
\* _rlFindStart ("findstart"), before the first or the second brentq, or
\* returned ("done"); nUpper and nLower count the loop steps taken.
RlFrame(pc, arg, lz, lower, rtry, rstart, rlower, r, nUpper, nLower, nBrentq) ==
    [op |-> "rl", pc |-> pc, arg |-> arg, lz |-> lz, lower |-> lower, rtry |-> rtry,
     rstart |-> rstart, rlower |-> rlower, tag |-> r.tag, msg |-> r.msg, val |-> r.val,
     nUpper |-> nUpper, nLower |-> nLower, nBrentq |-> nBrentq]

Running == [tag |-> "running", msg |-> <<>>, val |-> Zero]

InitSearch ==
    /\ pot \in RotFields
    /\ perr = FCall("none", <<>>, Ok(Zero))
    /\ search = NoSearch
    /\ thr = NoThreads
    /\ table = NoTable
    /\ orb = [cls |-> "none"]
    /\ ret = Ret("none", <<>>, "ok", "", Zero)
    /\ odeCall = NoCall
    /\ integrated = FALSE
    /\ Pot = Single(Field2D)
    /\ out = Ret("none", <<>>, "ok", "", Zero)

\* mutant: rl that searches for lz instead of math.fabs(lz)
rl_nofabs(lz) ==
    /\ search.pc \in {"idle", "done"}
    /\ search' = RlFrame("findstart", lz, lz, FALSE, Float(FMul(Num(2), lz)),
                         Zero, Zero, Running, 0, 0, 0)
    /\ UNCHANGED <<thr, table, orbitVars, evalVars, potVars>>

\* rl is called: _rlFindStart(math.fabs(lz),math.fabs(lz),Pot) starts with
\* rtry= 2.*rl
rl(lz) ==
    /\ search.pc \in {"idle", "done"}
    /\ search' = RlFrame("findstart", lz, math_fabs(lz), FALSE,
                         Float(FMul(Num(2), math_fabs(lz))), Zero, Zero, Running, 0, 0, 0)
    /\ UNCHANGED <<thr, table, orbitVars, evalVars, potVars>>

\* mutant: _rlFindStart that returns rtry without testing it
_rlFindStart_notest ==
    /\ search.op = "rl" /\ search.pc = "findstart"
    /\ IF search.lower
       THEN search' = [search EXCEPT !.rlower = search.rtry, !.pc = "brentq2"]
       ELSE search' = [search EXCEPT !.rstart = search.rtry, !.pc = "brentq1"]
    /\ UNCHANGED <<thr, table, orbitVars, evalVars, potVars>>

\* one test of the while condition of _rlFindStart: a turn of the loop, or
\* return rtry
_rlFindStart ==
    /\ search.op = "rl" /\ search.pc = "findstart"
    /\ LET sign == IF search.lower THEN Num(1) ELSE Num(-1)
           cond == FPos(FMul(sign, _rlfunc(search.rtry, search.lz, pot)))
       IN  IF cond
           THEN search' = [search EXCEPT
                    !.rtry = IF search.lower THEN Float(FDiv(@, Num(2)))
                             ELSE Float(FMul(@, Num(2))),
                    !.nUpper = IF search.lower THEN @ ELSE @ + 1,
                    !.nLower = IF search.lower THEN @ + 1 ELSE @]
           ELSE IF search.lower
           THEN search' = [search EXCEPT !.rlower = search.rtry, !.pc = "brentq2"]
           ELSE search' = [search EXCEPT !.rstart = search.rtry, !.pc = "brentq1"]
    /\ UNCHANGED <<thr, table, orbitVars, evalVars, potVars>>

\* mutant: rl without the except branch
rl_brentq_noretry ==
    /\ search.op = "rl" /\ search.pc = "brentq1"
    /\ LET r == brentq(pot, search.lz, TenToMinus5, search.rstart)
       IN  search' = [search EXCEPT !.pc = "done", !.tag = r.tag, !.msg = r.msg,
                                    !.val = r.val, !.nBrentq = @ + 1]
    /\ UNCHANGED <<thr, table, orbitVars, evalVars, potVars>>

\* try: return optimize.brentq(_rlfunc,10.**-5.,rstart,...)
\* except ValueError: rlower= _rlFindStart(10.**-5.,math.fabs(lz),Pot,lower=True)
rl_brentq ==
    /\ search.op = "rl" /\ search.pc = "brentq1"
    /\ LET r == brentq(pot, search.lz, TenToMinus5, search.rstart)
       IN  IF r.tag = "ValueError"
           THEN search' = [search EXCEPT !.pc = "findstart", !.lower = TRUE,
                                         !.rtry = Float(FMul(Num(2), TenToMinus5)),
                                         !.nBrentq = @ + 1]
           ELSE search' = [search EXCEPT !.pc = "done", !.tag = r.tag, !.msg = r.msg,
                                         !.val = r.val, !.nBrentq = @ + 1]
    /\ UNCHANGED <<thr, table, orbitVars, evalVars, potVars>>

\* return optimize.brentq(_rlfunc,rlower,rstart,...) in the except branch
rl_brentq_retry ==
    /\ search.op = "rl" /\ search.pc = "brentq2"
    /\ LET r == brentq(pot, search.lz, search.rlower, search.rstart)
       IN  search' = [search EXCEPT !.pc = "done", !.tag = r.tag, !.msg = r.msg,
                                    !.val = r.val, !.nBrentq = @ + 1]
    /\ UNCHANGED <<thr, table, orbitVars, evalVars, potVars>>

\* m= of lindbladR: an integer or a string
IntM(n) == [isStr |-> FALSE, n |-> n, text |-> ""]

StrM(text) == [isStr |-> TRUE, n |-> 0, text |-> text]

Ms == { IntM(2), IntM(-1), StrM("corotation"), StrM("Corot"), StrM("inner") }

\* 'corot' in m.lower()
HasCorot(text) == text \in {"corotation", "Corot"}

OmegaPs == { Num(0), Num(1) }

\* the ends 0.0000001 and 1000. of the interval searched, in natural units
LindbladLo == Norm(1, 10000000)

LindbladHi == Num(1000)

\* a lindbladR call that has returned or raised; brentq is the call made to
\* optimize.brentq, if any
LindbladFrame(OmegaP, m, brentqCall, tag, val) ==
    [op |-> "lindbladR", pc |-> "done", OmegaP |-> OmegaP, m |-> m,
     brentq |-> brentqCall, tag |-> tag, val |-> val]

BrentqCall(eq, a, b, sa, sb) == <<[eq |-> eq, a |-> a, b |-> b, sa |-> sa, sb |-> sb]>>

\* mutant: lindbladR that lets brentq's ValueError out
lindbladR_raises(OmegaP, m, sa, sb, converges) ==
    /\ search.pc \in {"idle", "done"}
    /\ IF m.isStr /\ ~HasCorot(m.text)
       THEN search' = LindbladFrame(OmegaP, m, <<>>, "IOError", "")
       ELSE LET eq == IF m.isStr THEN "_corotationR_eq" ELSE "_lindbladR_eq"
                call == BrentqCall(eq, LindbladLo, LindbladHi, sa, sb)
            IN  IF sa * sb > 0
                THEN search' = LindbladFrame(OmegaP, m, call, "ValueError", "")
                ELSE IF ~converges /\ sa * sb < 0
                THEN search' = LindbladFrame(OmegaP, m, call, "RuntimeError", "")
                ELSE search' = LindbladFrame(OmegaP, m, call, "ok", "root")
    /\ UNCHANGED <<thr, table, orbitVars, evalVars, potVars>>

\* lindbladR(Pot,OmegaP,m): sa and sb are the signs the resonance function of
\* the field takes at the two ends, and converges whether brentq's iteration
\* does
lindbladR(OmegaP, m, sa, sb, converges) ==
    /\ search.pc \in {"idle", "done"}
    /\ IF m.isStr /\ ~HasCorot(m.text)
       THEN search' = LindbladFrame(OmegaP, m, <<>>, "IOError", "")
       ELSE LET eq == IF m.isStr THEN "_corotationR_eq" ELSE "_lindbladR_eq"
                call == BrentqCall(eq, LindbladLo, LindbladHi, sa, sb)
            IN  IF sa * sb > 0
                THEN search' = LindbladFrame(OmegaP, m, call, "ok", "None")
                ELSE IF ~converges /\ sa * sb < 0
                THEN search' = LindbladFrame(OmegaP, m, call, "RuntimeError", "")
                ELSE search' = LindbladFrame(OmegaP, m, call, "ok", "root")
    /\ UNCHANGED <<thr, table, orbitVars, evalVars, potVars>>

NextSearch ==
    \/ \E lz \in Lzs : rl(lz)
    \/ _rlFindStart
    \/ rl_brentq
    \/ rl_brentq_retry
    \/ \E OmegaP \in OmegaPs, m \in Ms, sa \in {-1, 0, 1}, sb \in {-1, 0, 1}, converges \in BOOLEAN :
          lindbladR(OmegaP, m, sa, sb, converges)

SpecSearch == InitSearch /\ [][NextSearch]_vars

\* the steps inside a call of rl
RlStep == _rlFindStart \/ rl_brentq \/ rl_brentq_retry

NextRl == (\E lz \in Lzs : rl(lz)) \/ RlStep

\* calls of rl alone; a call that has started runs on until it returns or
\* raises
SpecRl == InitSearch /\ [][NextRl]_vars /\ WF_vars(RlStep)

\* R*v_c(R) of the field crosses L somewhere
Crosses(f, L) == FPos(L) /\ (f.kind = "flat" \/ ~FLe(FMul(f.c, Num(f.rc)), L))

\* C17: whenever rl(L) has returned for a field whose R*v_c(R) crosses |L|,
\* it returned a radius R with R*v_c(R) = |L|, also when the first bracket
\* failed and the lower bracket was searched; that radius is the one crossing
\* of |L|, so rl(L) and rl(-L) are the same.
C17_RlSolves ==
    (search.op = "rl" /\ search.pc = "done" /\ Crosses(pot, math_fabs(search.arg)))
        => /\ search.tag = "ok"
           /\ FEq(FMul(search.val, vcirc(pot, search.val)), math_fabs(search.arg))
           /\ search.val = FDiv(math_fabs(search.arg), pot.c)

\* rl of a negative lz has returned from the second brentq, after the first
\* bracket failed and the lower end was halved
C17_Witness ==
    /\ search.op = "rl" /\ search.pc = "done" /\ search.tag = "ok"
    /\ search.arg.n < 0 /\ Crosses(pot, math_fabs(search.arg))
    /\ search.nBrentq = 2 /\ search.nLower > 0

\* C18: a lindbladR call with a string m that does not ask for corotation
\* ends in an IOError without a call of brentq; any other call searches
\* [0.0000001, 1000.] with brentq, for a zero of _corotationR_eq when m is a
\* corotation string and of _lindbladR_eq otherwise, and when the function has
\* the same sign at both ends it returns None without an error.
C18_LindbladSearch ==
    search.op = "lindbladR" =>
        IF search.m.isStr /\ ~HasCorot(search.m.text)
        THEN search.tag = "IOError" /\ search.brentq = <<>>
        ELSE /\ Len(search.brentq) = 1
             /\ search.brentq[1].a = LindbladLo /\ search.brentq[1].b = LindbladHi
             /\ search.brentq[1].eq =
                  (IF search.m.isStr THEN "_corotationR_eq" ELSE "_lindbladR_eq")
             /\ search.brentq[1].sa * search.brentq[1].sb > 0
                  => (search.tag = "ok" /\ search.val = "None")
             /\ search.tag \in {"ok", "RuntimeError"}

\* lindbladR with m=2 found the same sign at both ends and returned None
C18_Witness ==
    /\ search.op = "lindbladR" /\ ~search.m.isStr /\ search.m.n = 2
    /\ search.brentq # <<>> /\ search.brentq[1].sa = 1 /\ search.brentq[1].sb = 1
    /\ search.tag = "ok" /\ search.val = "None"

(***************************************************************************)
(*                            SCFPotential                                 *)
(***************************************************************************)
\* A coefficient array: its shape (N,L,M) and whether every entry is one
\* ("ones", as the default nu.ones) or only the entries with m <= l ("lower")
Coefficients(shape, fill) == [shape |-> shape, fill |-> fill]

\* whether the entry [n,l,m] is nonzero: "fitted" and "zeros" are the Acos and
\* Asin the fitting routines return
Coef(A, n, l, m) ==
    CASE A.fill = "ones" -> 1
      [] A.fill = "lower" -> IF m <= l THEN 1 ELSE 0
      [] A.fill = "fitted" -> IF m = 0 THEN 1 ELSE 0
      [] A.fill = "zeros" -> 0

CoefShapes == { <<1, 1, 1>>, <<2, 1, 1>>, <<1, 1, 2>>, <<2, 2, 2>> }

CoefArrays ==
    { Coefficients(sh, "ones") : sh \in CoefShapes }
       \cup { Coefficients(<<1, 1, 2>>, "lower"), Coefficients(<<2, 2, 2>>, "lower") }

\* amp= of SCFPotential: a number, or a Quantity of density, G x density or mass
SCFAmps ==
    { Number(1), Quantity(2, UnitNamed("Msun/pc3")),
      Quantity(2, UnitNamed("km2/s2/pc2")), Quantity(2, UnitNamed("Msun")) }

\* normalize= of SCFPotential: a bool or a number
NormFlag(b) == [isBool |-> TRUE, b |-> b, v |-> Zero]

NormNumber(n, d) == [isBool |-> FALSE, b |-> FALSE, v |-> Norm(n, d)]

Normalizes == { NormFlag(FALSE), NormFlag(TRUE), NormNumber(1, 2) }

\* normalize or (isinstance(normalize,(int,float)) and not isinstance(normalize,bool))
NormalizeAsked(x) == IF x.isBool THEN x.b ELSE TRUE

RECURSIVE Factorial(_)
Factorial(k) == IF k = 0 THEN 1 ELSE k * Factorial(k - 1)

\* _Nroot(L): the L-by-L table with, for m <= l, the entry
\* ((2*l + 1.)/(4*nu.pi) * fact(l - m)/fact(l + m))**.5 * (2. - (m==0)),
\* kept as the fraction under the root (without 1/(4 pi)) and the factor
\* outside it; the entries with m > l stay zero
_Nroot(L) ==
    [l \in 0..(L - 1) |->
       [m \in 0..(L - 1) |->
          IF m <= l
          THEN [sq |-> Norm((2 * l + 1) * Factorial(l - m), Factorial(l + m)),
                times |-> IF m = 0 THEN 1 ELSE 2]
          ELSE [sq |-> Zero, times |-> 0]]]

\* compute_coeffs_spherical(dens,N): Acos and Asin of shape (N,1,1)
compute_coeffs_spherical(N) ==
    <<Coefficients(<<N, 1, 1>>, "fitted"), Coefficients(<<N, 1, 1>>, "zeros")>>

\* compute_coeffs_axi(dens,N,L): Acos and Asin of shape (N,L,1)
compute_coeffs_axi(N, L) ==
    <<Coefficients(<<N, L, 1>>, "fitted"), Coefficients(<<N, L, 1>>, "zeros")>>

\* the pairs the fitting routines return for N, L in 1..2
FittedPairs ==
    { compute_coeffs_spherical(N) : N \in 1..2 }
       \cup { compute_coeffs_axi(N, L) : N \in 1..2, L \in 1..2 }

\* ro= and vo= of SCFPotential, both left out or both given
SCFScales == { <<None, None>>, <<<<9>>, <<200>>>> }

\* a call on an SCFPotential; used lists the indices <<n,l,m>> of the
\* coefficients an evaluation read
SCall(op, args, tag, msg, tried, used) ==
    [op |-> op, args |-> args, tag |-> tag, msg |-> msg, tried |-> tried, used |-> used]

\* the instance after __init__ has returned; nNroot counts the calls of
\* _Nroot made on it
SCFObject(po, Acos, Asin, a) ==
    [x \in DOMAIN po \cup {"_Acos", "_Asin", "_a", "_NN", "nNroot"} |->
       CASE x = "cls" -> "SCFPotential"
         [] x = "_Acos" -> Acos
         [] x = "_Asin" -> Asin
         [] x = "_a" -> a
         [] x = "_NN" -> _Nroot(Acos.shape[2])
         [] x = "nNroot" -> 1
         [] OTHER -> po[x]]

\* SCFPotential(amp=amp,Acos=Acos,Asin=Asin,normalize=normalize,ro=ro,vo=vo):
\* Potential.__init__ with amp_units='unitless', then self.normalize, which
\* needs the _Rforce the class does not have, then the arrays are stored
SCFPotential_init(amp, Acos, Asin, norm, ro, vo) ==
    LET ctor == [amp |-> amp, ro |-> ro, vo |-> vo, amp_units |-> "unitless",
                 Acos |-> Acos, Asin |-> Asin, normalize |-> norm]
        r == IF amp.isQuantity THEN ParseAmp(1, amp, "unitless", <<>>)
             ELSE Parsed("ok", <<>>, Amplitude(amp.value, <<>>), <<>>)
        po == IF amp.isQuantity
              THEN PotentialObject(r.amp, ro, vo, TRUE, TRUE, ctor)
              ELSE PotentialObject(r.amp, ro, vo, ro # None, vo # None, ctor)
        nf == NotImplemented("_Rforce")
    IN  /\ IF r.tag # "ok"
           THEN /\ pot' = [cls |-> "none"]
                /\ perr' = SCall("SCFPotential.__init__", ctor, r.tag, r.msg, r.tried, {})
           ELSE IF NormalizeAsked(norm)
           THEN /\ pot' = [cls |-> "none"]
                /\ perr' = SCall("SCFPotential.__init__", ctor, nf.tag, nf.msg, r.tried, {})
           ELSE /\ pot' = SCFObject(po, Acos, Asin, 1)
                /\ perr' = SCall("SCFPotential.__init__", ctor, "ok", <<>>, r.tried, {})
        /\ UNCHANGED <<thr, table, search, orbitVars, evalVars>>

\* _compute: what the double loop over l and m does.  m is nu.arange(0,L) when
\* the inner loop is first reached, so range(m + 1) is range of an array: a
\* TypeError for L > 1, and for L = 1 a TypeError or range(1), depending on
\* whether the numpy in use converts a one-element array (indexable).  The
\* assignment to func[:,l,m] broadcasts Acos[:,l,m] and Asin[:,l,m].
_compute(p, indexable) ==
    LET N == p._Acos.shape[1]
        L == p._Acos.shape[2]
        N2 == p._Asin.shape[1]
    IN  IF L > 1 \/ ~indexable
        THEN [tag |-> "TypeError", msg |-> <<"range(m + 1)">>, used |-> {}]
        ELSE IF N2 # N /\ N2 # 1
        THEN [tag |-> "ValueError", msg |-> <<"could not broadcast">>, used |-> {}]
        ELSE [tag |-> "ok", msg |-> <<>>,
              used |-> { <<n, 0, 0>> : n \in 0..(N - 1) }]

\* mutant: an evaluation that builds the normalization table again, from M
_evaluate_renormalizes(indexable) ==
    /\ pot.cls = "SCFPotential"
    /\ LET r == _compute(pot, indexable)
       IN  perr' = SCall("_evaluate", <<indexable>>, r.tag, r.msg, <<>>, r.used)
    /\ pot' = [pot EXCEPT !._NN = _Nroot(pot._Acos.shape[3]), !.nNroot = 2]
    /\ UNCHANGED <<thr, table, search, orbitVars, evalVars>>

\* _evaluate: nu.sum(self._compute(self._phiTilde, R, z, phi))
_evaluate(indexable) ==
    /\ pot.cls = "SCFPotential"
    /\ LET r == _compute(pot, indexable)
       IN  perr' = SCall("_evaluate", <<indexable>>, r.tag, r.msg, <<>>, r.used)
    /\ UNCHANGED <<thr, table, search, pot, orbitVars, evalVars>>

\* _dens: nu.sum(self._compute(self._rhoTilde, R, z, phi))
_dens(indexable) ==
    /\ pot.cls = "SCFPotential"
    /\ LET r == _compute(pot, indexable)
       IN  perr' = SCall("_dens", <<indexable>>, r.tag, r.msg, <<>>, r.used)
    /\ UNCHANGED <<thr, table, search, pot, orbitVars, evalVars>>

NextSCF ==
    \/ \E amp \in SCFAmps, Acos \in CoefArrays, Asin \in CoefArrays,
          norm \in Normalizes, sc \in SCFScales :
          SCFPotential_init(amp, Acos, Asin, norm, sc[1], sc[2])
    \/ \E fit \in FittedPairs :
          SCFPotential_init(Number(1), fit[1], fit[2], NormFlag(FALSE), None, None)
    \/ \E indexable \in BOOLEAN : _evaluate(indexable)
    \/ \E indexable \in BOOLEAN : _dens(indexable)

SpecSCF == InitPot /\ [][NextSCF]_vars

\* the array holds a nonzero coefficient whose azimuthal order m exceeds its
\* angular order l
HoldsHighOrder(A) ==
    \E l \in 0..(A.shape[2] - 1), m \in 0..(A.shape[3] - 1) : m > l /\ Coef(A, 0, l, m) # 0

\* C19: an SCFPotential on which an evaluation has returned a value holds
\* Acos and Asin of equal shape and no nonzero coefficient with m > l, and
\* the evaluation read no coefficient with m > l.
C19_ShapesMatchAndTriangular ==
    (pot.cls = "SCFPotential" /\ perr.op \in {"_evaluate", "_dens"} /\ perr.tag = "ok")
        => /\ pot._Acos.shape = pot._Asin.shape
           /\ ~HoldsHighOrder(pot._Acos) /\ ~HoldsHighOrder(pot._Asin)
           /\ \A u \in perr.used : u[3] <= u[2]

\* C20: a call of SCFPotential with an amplitude that is a Quantity of mass
\* density or of G x mass density (and normalize left out) constructs the
\* instance, with the amplitude converted to internal units and both
\* physical-output flags set.
C20_DensityAmplitudeAccepted ==
    (/\ perr.op = "SCFPotential.__init__"
     /\ perr.args.amp.isQuantity
     /\ perr.args.amp.unit.name \in {"Msun/pc3", "km2/s2/pc2"}
     /\ perr.args.normalize = NormFlag(FALSE))
        => /\ perr.tag = "ok"
           /\ pot.cls = "SCFPotential"
           /\ pot._roSet /\ pot._voSet
           /\ "dens_in_msolpc3(vo,ro)" \in Range(pot._amp.per)

\* C21: a call of SCFPotential with a bare-number amplitude and normalize
\* True or a number constructs the instance; with normalize=False it
\* constructs the instance with the amplitude as given.
C21_NormalizedConstruction ==
    (perr.op = "SCFPotential.__init__" /\ ~perr.args.amp.isQuantity)
        => /\ perr.tag = "ok"
           /\ pot.cls = "SCFPotential"
           /\ perr.args.normalize = NormFlag(FALSE)
                => pot._amp = Amplitude(perr.args.amp.value, <<>>)

\* the index triples (n,l,m) with 0 <= n < N and 0 <= m <= l < L
ValidTriples(N, L) ==
    { <<n, l, m>> : n \in 0..(N - 1), l \in 0..(L - 1), m \in 0..(L - 1) } \ 
       { u \in (0..(N - 1)) \X (0..(L - 1)) \X (0..(L - 1)) : u[3] > u[2] }

\* C22: an evaluation of the potential or the density of an SCFPotential
\* whose Acos and Asin have the same shape (N,L,M), M >= L, returns and has
\* read exactly the coefficients (n,l,m) with 0 <= n < N and 0 <= m <= l < L
\* (shown for the numpy that converts a one-element array in range()).
C22_SumsEveryTerm ==
    (/\ pot.cls = "SCFPotential" /\ perr.op \in {"_evaluate", "_dens"}
     /\ perr.args = <<TRUE>>
     /\ pot._Acos.shape = pot._Asin.shape
     /\ pot._Acos.shape[3] >= pot._Acos.shape[2])
        => /\ perr.tag = "ok"
           /\ perr.used = ValidTriples(pot._Acos.shape[1], pot._Acos.shape[2])

\* C24: the normalization table of an SCFPotential is _Nroot of the second
\* dimension of Acos, built by the one call the constructor makes, and an
\* evaluation of the potential or the density leaves the instance, with its
\* table, coefficient arrays, scale length and amplitude, as it was.
C24_TableReadOnly ==
    /\ [](pot.cls = "SCFPotential"
            => pot._NN = _Nroot(pot._Acos.shape[2]) /\ pot.nNroot = 1)
    /\ [][perr'.op \in {"_evaluate", "_dens"} => pot' = pot]_vars

\* an evaluation has returned a value on an instance built with L = 1
C24_Witness ==
    /\ pot.cls = "SCFPotential" /\ perr.op = "_dens" /\ perr.tag = "ok"
    /\ pot._Acos.shape = <<2, 1, 1>> /\ pot.nNroot = 1

\* C30: an SCFPotential built from the arrays a fitting routine returned has
\* Acos and Asin of one shape and an Asin that is all zero, and an evaluation
\* of it returns, having read only entries inside the arrays (shown for the
\* numpy that converts a one-element array in range()).
C30_FittedArraysEvaluate ==
    (pot.cls = "SCFPotential" /\ pot._Acos.fill = "fitted")
        => /\ pot._Acos.shape = pot._Asin.shape
           /\ pot._Asin.fill = "zeros"
           /\ (perr.op \in {"_evaluate", "_dens"} /\ perr.args = <<TRUE>>)
                => /\ perr.tag = "ok"
                   /\ \A u \in perr.used : /\ u[1] < pot._Acos.shape[1]
                                           /\ u[2] < pot._Acos.shape[2]
                                           /\ u[3] < pot._Acos.shape[3]

(***************************************************************************)
(*                 SCFPotential._C, one loop turn per step                 *)
(***************************************************************************)
\* xi = (r - a)/(r + a) of _calculateXi lies between -1 and 1
Xis == { Norm(-1, 2), Zero, Norm(1, 2), Num(1) }

\* alpha = 2*l + 3./2.
GegenAlpha(l) == Norm(4 * l + 3, 2)

\* The locals of a running _C call: the loop indices l and n, the table CC
\* and, per entry, how many times it has been assigned.
CFrame(pc, xi, L, N, l, n, CC, writes, tag) ==
    [op |-> "_C", pc |-> pc, xi |-> xi, L |-> L, N |-> N, l |-> l, n |-> n,
     CC |-> CC, writes |-> writes, tag |-> tag]

InitGegen ==
    /\ table = NoTable
    /\ thr = NoThreads
    /\ search = NoSearch
    /\ pot = [cls |-> "none"]
    /\ perr = PCall("none", <<>>, "ok", <<>>, <<>>)
    /\ orb = [cls |-> "none"]
    /\ ret = Ret("none", <<>>, "ok", "", Zero)
    /\ odeCall = NoCall
    /\ integrated = FALSE
    /\ Pot = Single(Field2D)
    /\ out = Ret("none", <<>>, "ok", "", Zero)

\* _C(xi,L,N) is called: CC = nu.zeros((N,L), float) and the loops start
_C(xi, L, N) ==
    /\ table.pc \in {"idle", "done"}
    /\ table' = CFrame("loop", xi, L, N, 0, 0,
                       [n \in 0..(N - 1) |-> [l \in 0..(L - 1) |-> Zero]],
                       [n \in 0..(N - 1) |-> [l \in 0..(L - 1) |-> 0]], "running")
    /\ UNCHANGED <<thr, search, orbitVars, evalVars, potVars>>

\* the frame after the loop indices have moved on: the next n, the next l, or
\* return CC
GegenAdvance(f) ==
    IF f.n + 1 < f.N THEN [f EXCEPT !.n = f.n + 1]
    ELSE IF f.l + 1 < f.L THEN [f EXCEPT !.n = 0, !.l = f.l + 1]
    ELSE [f EXCEPT !.pc = "done", !.tag = "ok"]

\* CC[n+1][l] = (n + 1)**-1. * (2*(n + alpha)*xi*CC[n][l] - (n + 2*alpha - 1)*CC[n-1][l])
GegenNext(n, alpha, xi, Cn, Cprev) ==
    FMul(Norm(1, n + 1),
         FSub(FMul(FMul(FMul(Num(2), FAdd(Num(n), alpha)), xi), Cn),
              FMul(FSub(FAdd(Num(n), FMul(Num(2), alpha)), Num(1)), Cprev)))

\* the frame after an assignment CC[n][l] = v; an n outside the table is an
\* IndexError that ends the call
GegenAssign(f, n, l, v) ==
    IF n >= f.N THEN [f EXCEPT !.pc = "done", !.tag = "IndexError"]
    ELSE [f EXCEPT !.CC[n][l] = v, !.writes[n][l] = @ + 1]

\* mutant: the body of the loops without the test n + 1 != N
_C_step_unguarded ==
    /\ table.op = "_C" /\ table.pc = "loop"
    /\ LET f == table
           alpha == GegenAlpha(f.l)
           f1 == IF f.n = 1 THEN GegenAssign(f, 1, f.l, FMul(FMul(Num(2), alpha), f.xi))
                 ELSE f
           f2 == GegenAssign(f1, f.n + 1, f.l,
                             GegenNext(f.n, alpha, f.xi, f1.CC[f.n][f.l], f1.CC[f.n - 1][f.l]))
       IN  table' = IF f.n = 0 THEN GegenAdvance(GegenAssign(f, 0, f.l, Num(1)))
                    ELSE IF f2.pc = "done" THEN f2
                    ELSE GegenAdvance(f2)
    /\ UNCHANGED <<thr, search, orbitVars, evalVars, potVars>>

\* one turn of the body of the loops over l and n
_C_step ==
    /\ table.op = "_C" /\ table.pc = "loop"
    /\ LET f == table
           alpha == GegenAlpha(f.l)
           f1 == IF f.n = 1 THEN GegenAssign(f, 1, f.l, FMul(FMul(Num(2), alpha), f.xi))
                 ELSE f
           f2 == IF f.n + 1 # f.N
                 THEN GegenAssign(f1, f.n + 1, f.l,
                                  GegenNext(f.n, alpha, f.xi, f1.CC[f.n][f.l], f1.CC[f.n - 1][f.l]))
                 ELSE f1
       IN  table' = IF f.n = 0 THEN GegenAdvance(GegenAssign(f, 0, f.l, Num(1)))
                    ELSE IF f2.pc = "done" THEN f2
                    ELSE GegenAdvance(f2)
    /\ UNCHANGED <<thr, search, orbitVars, evalVars, potVars>>

NextGegen ==
    \/ \E xi \in Xis, L \in 1..MaxL, N \in 1..MaxN : _C(xi, L, N)
    \/ _C_step

SpecGegen == InitGegen /\ [][NextGegen]_vars

\* C23: when _C(xi,L,N) has ended it has returned, without an assignment
\* outside the table, an N-by-L table in which every entry was assigned once
\* and, for every l < L with alpha = 2l+3/2, C[0][l] = 1, C[1][l] = 2*alpha*xi
\* when N > 1, and C[n+1][l] =
\* (2(n+alpha)*xi*C[n][l] - (n+2alpha-1)*C[n-1][l])/(n+1) for 1 <= n < N-1.
C23_GegenbauerTable ==
    (table.op = "_C" /\ table.pc = "done")
        => /\ table.tag = "ok"
           /\ DOMAIN table.CC = 0..(table.N - 1)
           /\ \A l \in 0..(table.L - 1) :
                LET alpha == GegenAlpha(l)
                    C(n) == table.CC[n][l]
                IN  /\ DOMAIN table.CC[0] = 0..(table.L - 1)
                    /\ \A n \in 0..(table.N - 1) : table.writes[n][l] = 1
                    /\ C(0) = Num(1)
                    /\ table.N > 1 => C(1) = FMul(FMul(Num(2), alpha), table.xi)
                    /\ \A n \in 1..(table.N - 2) :
                         C(n + 1) =
                           FDiv(FSub(FMul(FMul(FMul(Num(2), FAdd(Num(n), alpha)), table.xi), C(n)),
                                     FMul(FSub(FAdd(Num(n), FMul(Num(2), alpha)), Num(1)), C(n - 1))),
                                Num(n + 1))

\* a table with four rows and two columns has been returned for xi = 1/2
C23_Witness ==
    /\ table.op = "_C" /\ table.pc = "done" /\ table.tag = "ok"
    /\ table.N = 4 /\ table.L = 2 /\ table.xi = Norm(1, 2)
    /\ table.CC[3][1] # Zero

RlValue(R) == _rlfunc(R, search.lz, pot)

DiagOf(op, rs) ==
    IF op = "rap" THEN amax(rs) ELSE IF op = "rperi" THEN amin(rs) ELSE eOf(rs)

\* the locals of one diagnostic call: its position, the method, whether
\* self.rs was there when the call began, whether the call has evaluated
\* self.orbit[:,0], the array it has computed, and its outcome
DFrame(pc, op, hadRs, read, loc, tag, val) ==
    [pc |-> pc, op |-> op, hadRs |-> hadRs, read |-> read, loc |-> loc,
     tag |-> tag, val |-> val]

\* planarOrbit.e is the one diagnostic that does not go through self.rs
OverridesE(o, op) == o.cls = "planarOrbit" /\ op = "e"

\* an orbit object straight from its constructor, or after one completed
\* integrate in a planar field; no diagnostic has been called on it
InitThreads ==
    /\ \/ \E v \in InitialStates3 :
            /\ orb = [cls |-> "planarROrbit", vxvv |-> v]
            /\ ret = Ret("planarROrbit.__init__", v, "ok", "", Zero)
            /\ odeCall = NoCall
            /\ integrated = FALSE
       \/ \E v \in InitialStates4 :
            /\ orb = [cls |-> "planarOrbit", vxvv |-> v]
            /\ ret = Ret("planarOrbit.__init__", v, "ok", "", Zero)
            /\ odeCall = NoCall
            /\ integrated = FALSE
       \/ \E v \in InitialStates3, t \in Times :
            \E intOut \in odeint(ROrbit_init(v), t, RRows) :
            /\ orb = SetAttr(SetAttr([cls |-> "planarROrbit", vxvv |-> v], "t", t),
                             "orbit", _integrateROrbit(v, intOut))
            /\ ret = Ret("integrate", t, "ok", "", Zero)
            /\ odeCall = OdeCall("_REOM", Single(Field2D), <<ROrbit_l2(v)>>,
                                 ROrbit_init(v), t, intOut)
            /\ integrated = TRUE
       \/ \E v \in {w \in InitialStates4 : ~Orbit_vphiRaises(w)}, t \in Times :
            \E intOut \in odeint(Orbit_init(v), t, FullRows) :
            /\ orb = SetAttr(SetAttr([cls |-> "planarOrbit", vxvv |-> v], "t", t),
                             "orbit", _integrateOrbit(intOut))
            /\ ret = Ret("integrate", t, "ok", "", Zero)
            /\ odeCall = OdeCall("_EOM", Single(Field2D), <<>>, Orbit_init(v), t, intOut)
            /\ integrated = TRUE
    /\ Pot = Single(Field2D)
    /\ out = Ret("none", <<>>, "ok", "", Zero)
    /\ pot = [cls |-> "none"]
    /\ perr = Ret("none", <<>>, "ok", "", Zero)
    /\ search = NoSearch
    /\ thr = NoThreads
    /\ table = NoTable

\* a thread enters e(), rap() or rperi()
diag_call(th, op) ==
    /\ thr[th].pc \in {"idle", "done"}
    /\ thr' = [thr EXCEPT ![th] =
                 DFrame("check_orbit", op, HasAttr(orb, "rs"), FALSE, <<>>, "ok", Zero)]
    /\ UNCHANGED <<table, search, orbitVars, evalVars, potVars>>

\* if not hasattr(self,'orbit'): raise AttributeError("Integrate the orbit first")
diag_check_orbit(th) ==
    /\ thr[th].pc = "check_orbit"
    /\ thr' = [thr EXCEPT ![th] =
                 IF ~HasAttr(orb, "orbit")
                 THEN [@ EXCEPT !.pc = "done", !.tag = "AttributeError"]
                 ELSE IF OverridesE(orb, thr[th].op)
                 THEN [@ EXCEPT !.pc = "compute"]
                 ELSE [@ EXCEPT !.pc = "check_rs"]]
    /\ UNCHANGED <<table, search, orbitVars, evalVars, potVars>>

\* if not hasattr(self,'rs'):
diag_check_rs(th) ==
    /\ thr[th].pc = "check_rs"
    /\ thr' = [thr EXCEPT ![th] =
                 [@ EXCEPT !.pc = IF HasAttr(orb, "rs") THEN "return" ELSE "compute"]]
    /\ UNCHANGED <<table, search, orbitVars, evalVars, potVars>>

\* the right-hand side self.orbit[:,0]**2.
diag_compute(th) ==
    /\ thr[th].pc = "compute"
    /\ thr' = [thr EXCEPT ![th] =
                 [@ EXCEPT !.pc = IF OverridesE(orb, thr[th].op) THEN "return" ELSE "store",
                           !.read = TRUE,
                           !.loc = rsOf(orb.orbit)]]
    /\ UNCHANGED <<table, search, orbitVars, evalVars, potVars>>

\* mutant: the array already stored is squared in place
diag_store_inplace(th) ==
    /\ thr[th].pc = "store"
    /\ orb' = SetAttr(orb, "rs",
                IF HasAttr(orb, "rs")
                THEN [i \in DOMAIN orb.rs |-> FMul(orb.rs[i], orb.rs[i])]
                ELSE thr[th].loc)
    /\ thr' = [thr EXCEPT ![th] = [@ EXCEPT !.pc = "return"]]
    /\ UNCHANGED <<table, search, ret, odeCall, integrated, evalVars, potVars>>

\* the attribute store self.rs= ...
diag_store(th) ==
    /\ thr[th].pc = "store"
    /\ orb' = SetAttr(orb, "rs", thr[th].loc)
    /\ thr' = [thr EXCEPT ![th] = [@ EXCEPT !.pc = "return"]]
    /\ UNCHANGED <<table, search, ret, odeCall, integrated, evalVars, potVars>>

\* the return statement: from self.rs, or from the local rs in planarOrbit.e
diag_return(th) ==
    /\ thr[th].pc = "return"
    /\ thr' = [thr EXCEPT ![th] =
                 [@ EXCEPT !.pc = "done",
                           !.val = DiagOf(thr[th].op, IF OverridesE(orb, thr[th].op)
                                                THEN thr[th].loc ELSE orb.rs)]]
    /\ UNCHANGED <<table, search, orbitVars, evalVars, potVars>>

NextThreads ==
    \E th \in Threads :
        \/ \E op \in Diagnostics : diag_call(th, op)
        \/ diag_check_orbit(th)
        \/ diag_check_rs(th)
        \/ diag_compute(th)
        \/ diag_store(th)
        \/ diag_return(th)

SpecThreads == InitThreads /\ [][NextThreads]_vars

(***************************************************************************)
(*        Claims about the cached radii of an orbit (self.rs)              *)
(***************************************************************************)
\* C28: whatever integrate and diagnostic calls came before, a diagnostic
\* returns the value derived from the trajectory the orbit now holds, the
\* one of the most recent integrate, and e() agrees with what rap() and
\* rperi() return on that orbit: e = (rap-rperi)/(rap+rperi).
C28_FollowsLastIntegrate ==
    (ret.op \in Diagnostics /\ ret.tag = "ok") =>
        /\ ret.val = DiagOf(ret.op, rsOf(orb.orbit))
        /\ (ret.op = "e" /\ HasAttr(orb, "rs")) =>
             ret.val = FDiv(FSub(amax(orb.rs), amin(orb.rs)),
                            FAdd(amax(orb.rs), amin(orb.rs)))

\* C26: on an integrated orbit of either class a completed diagnostic leaves
\* the radii stored, and a call that began when the radii were stored
\* returns without evaluating the trajectory.
C26_ComputedOnce ==
    \A th \in Threads :
        (thr[th].pc = "done" /\ thr[th].tag = "ok") =>
            /\ HasAttr(orb, "rs")
            /\ thr[th].hadRs => ~thr[th].read

\* C27: whatever the interleaving of the threads' tests, evaluations and
\* stores on an integrated orbit, every call returns the value a single
\* sequential call returns, and the stored radii are the squared radii of
\* the trajectory.
C27_RaceIsBenign ==
    /\ \A th \in Threads :
         (thr[th].pc = "done" /\ thr[th].tag = "ok") =>
             thr[th].val = DiagOf(thr[th].op, rsOf(orb.orbit))
    /\ HasAttr(orb, "rs") => orb.rs = rsOf(orb.orbit)

\* two threads have both found no stored radii, both evaluated the
\* trajectory and both stored, and have returned from rap() and e()
C27_Witness ==
    /\ orb.cls = "planarROrbit" /\ HasAttr(orb, "rs")
    /\ Len(orb.orbit) >= 2 /\ orb.orbit[1][1] # orb.orbit[2][1]
    /\ thr[1].pc = "done" /\ thr[1].op = "rap" /\ thr[1].read /\ ~thr[1].hadRs
    /\ thr[2].pc = "done" /\ thr[2].op = "e" /\ thr[2].read /\ ~thr[2].hadRs

====
